---- MODULE Spec2Model ----
(***************************************************************************)
(* Timeline / engagement cache engine and realtime session controller of   *)
(* the feed/chat backend (settings/my_redis.py, settings/my_websocket.py,  *)
(* apps/*/ws.py).  The key-value store is modelled key family by key       *)
(* family: one variable per Redis key pattern the managers use.            *)
(***************************************************************************)
EXTENDS Integers, Sequences, FiniteSets, TLC

\* ------------------------------------------------------------------ bounds
\* Feed/comment ids issued by the durable store: 1..MaxIds.
MaxIds == 3
\* created_at values (seconds) handed to create_feed: 1..MaxTime.
MaxTime == 2
\* Number of writing calls (create, delete, follow, engagement) explored.
MaxCalls == 5
\* create_feed / add_follower cap arguments (defaults 360 / 120 / 120 in the
\* source), instantiated small so that the trim is exercised.
max_gt == 2
max_ft == 1
max_ut == 1

\* Number of calls on the chat cache explored.
MaxChatCalls == 4
\* Number of chats created before the chat hooks publish.
MaxHookChats == 1
\* Clock readings explored for one receiver, in units of ten seconds.
MaxClock == 12
\* ------------------------------------------------------------ value spaces
Users == {"u1", "u2"}
Ids == 1..MaxIds
Times == 1..MaxTime
\* Python None for an id-valued / user-valued lookup.
NoId == 0
NoUser == "None"
EngagementType == {"reposts", "quotes", "likes", "views", "bookmarks"}
\* The engagement types the explored calls use; the code treats all five alike.
EngInputTypes == {"likes"}
\* (start, end) pairs handed to the timeline reads.
Pages == {<<0, 0>>, <<0, 2>>, <<1, 2>>}

VARIABLES
    feeds_meta,          \* feeds:{id}:meta            hash
    feeds_comments,      \* feeds:{id}:comments        set of comment ids
    feeds_eng,           \* feeds:{id}:{type}          set of user ids
    comments_comments,   \* comments:{id}:comments     set of comment ids
    comments_eng,        \* comments:{id}:{type}       set of user ids
    comments_author_id,  \* comments:{id}:author_id    string
    comments_parent_id,  \* comments:{id}:parent_id    string
    users_comments,      \* users:{u}:comments         set of comment ids
    users_eng,           \* users:{u}:{type}           set of feed/comment ids
    followers,           \* users:{u}:followers        set
    followings,          \* users:{u}:followings       set
    profile,             \* users:{u}:profile          hash (counter fields)
    global_timeline,     \* global_timeline            sorted set
    following_timeline,  \* users:{u}:following_timeline sorted set
    user_timeline,       \* users:{u}:user_timeline    sorted set
    inserted,            \* per timeline: every member zadd-ed and not zrem-ed since, with its score
    used,                \* ids the durable store has issued so far
    ncalls,              \* writing calls made so far
    last,                \* the call that produced the current state, and what it returned
    probe,               \* _calculate_score applied to one post: its arguments and its result
    sessions,            \* one WebSocketContextManager per connected user
    authorized_connections, \* chat_ws_manager.authorized_connections (its key set)
    traffic,             \* per session: what its two loops have received and sent
    manager,             \* one WebSocketManager: its registry and its anonymous pool
    websockets,          \* the websocket objects the manager is handed
    mcall,               \* the last call made on the manager, and its outcome
    feeds_online,        \* feeds:online                 set of user ids
    timeline_sessions,   \* per websocket of the feeds surface: whose session, and how far it is
    chats,               \* the keys ChatCacheManager reads and writes
    ccall,               \* the last call made on the chat cache, and its outcome
    walk,                \* one call of get_all_nested_comment_ids, iteration by iteration
    bus,                 \* RedisPubSubManager: the open subscriptions and the last publish
    rx,                  \* _websocket_receiver of one session against the clock
    inflight,            \* per request in progress: the call, and what it has read so far
    relay                \* inbound chat events: published, waiting at a listener, handled

store == <<feeds_meta, feeds_comments, feeds_eng, comments_comments, comments_eng,
           comments_author_id, comments_parent_id, users_comments, users_eng,
           followers, followings, profile, global_timeline, following_timeline,
           user_timeline>>
connection_manager == <<manager, websockets, mcall>>
presence == <<feeds_online, timeline_sessions>>
chat_cache == <<chats, ccall>>
extensions == <<chat_cache, walk, bus, rx, inflight, relay>>
components == <<connection_manager, presence, extensions>>
realtime == <<sessions, authorized_connections, traffic, components>>
vars == <<store, inserted, used, ncalls, last, probe, realtime>>

\* ------------------------------------------------------- store primitives
\* Requests the server works on at the same time.
MaxInFlight == 2
Procs == 1..MaxInFlight
\* A hash that does not exist reads as the empty mapping.
\* fields: which of the keys update_feed writes the hash holds.
EmptyMeta == [id |-> NoId, author_id |-> NoUser, created_at |-> 0, fields |-> {}]
Exists(h) == h # EmptyMeta
HExists(f) == Exists(feeds_meta[f])

SAddToggle(s, m) == IF m \in s THEN s \ {m} ELSE s \cup {m}
SAdd(s, m) == s \cup {m}
SRem(s, m) == s \ {m}

EmptyZ == [x \in {} |-> 0]
ZCard(z) == Cardinality(DOMAIN z)
\* Sorted-set order: by score, ties by member.
Below(z, a, b) == z[a] < z[b] \/ (z[a] = z[b] /\ a < b)
Rank(z, a) == Cardinality({b \in DOMAIN z : Below(z, b, a)})
RevRank(z, a) == Cardinality({b \in DOMAIN z : Below(z, a, b)})
ZAdd(z, m) == [x \in DOMAIN z \cup DOMAIN m |-> IF x \in DOMAIN m THEN m[x] ELSE z[x]]
ZRemNothing(z, ms) == z
ZRem(z, ms) == [x \in DOMAIN z \ ms |-> z[x]]
\* Index normalisation shared by the rank-range commands.
NormStart(n, i) == IF i < 0 THEN (IF n + i < 0 THEN 0 ELSE n + i) ELSE i
NormStop(n, i) == IF i < 0 THEN n + i ELSE (IF i >= n THEN n - 1 ELSE i)
ZRemRangeByRankKeepLowest(z, min, max) ==
    LET n == ZCard(z)
        lo == NormStart(n, min)
        hi == NormStop(n, max)
    IN  [x \in {a \in DOMAIN z : ~(lo <= RevRank(z, a) /\ RevRank(z, a) <= hi)} |-> z[x]]
ZRemRangeByRank(z, min, max) ==
    LET n == ZCard(z)
        lo == NormStart(n, min)
        hi == NormStop(n, max)
    IN  [x \in {a \in DOMAIN z : ~(lo <= Rank(z, a) /\ Rank(z, a) <= hi)} |-> z[x]]
ZRevRange(z, start, end) ==
    LET n == ZCard(z)
        lo == NormStart(n, start)
        hi == NormStop(n, end)
        all == [i \in 1..n |-> CHOOSE a \in DOMAIN z : RevRank(z, a) = i - 1]
    IN  IF lo > hi \/ lo >= n THEN <<>> ELSE SubSeq(all, lo + 1, hi + 1)
ZRangeWithScores(z) == z

\* zadd followed by the trim to the cap, as every timeline insert does.
AddAndTrim(z, m, cap) == ZRemRangeByRank(ZAdd(z, m), 0, (-cap) - 1)

\* ------------------------------------------------------------ ranking score
\* math.log, tabulated: LogMilli[k + 1] = floor(100000 * ln(1 + k / 2)) for
\* k = 0..130, k being twice the weighted engagement sum (views weigh 0.5).
\* The scores of the model are the source's scores in units of 1/1000.
LogMilli == <<
    0, 40546, 69314, 91629, 109861, 125276, 138629, 150407, 160943, 170474,
    179175, 187180, 194591, 201490, 207944, 214006, 219722, 225129, 230258, 235137,
    239789, 244234, 248490, 252572, 256494, 260268, 263905, 267414, 270805, 274084,
    277258, 280336, 283321, 286220, 289037, 291777, 294443, 297041, 299573, 302042,
    304452, 306805, 309104, 311351, 313549, 315700, 317805, 319867, 321887, 323867,
    325809, 327714, 329583, 331418, 333220, 334990, 336729, 338439, 340119, 341772,
    343398, 344998, 346573, 348124, 349650, 351154, 352636, 354095, 355534, 356953,
    358351, 359731, 361091, 362434, 363758, 365065, 366356, 367630, 368887, 370130,
    371357, 372569, 373766, 374950, 376120, 377276, 378418, 379548, 380666, 381771,
    382864, 383945, 385014, 386072, 387120, 388156, 389182, 390197, 391202, 392197,
    393182, 394158, 395124, 396081, 397029, 397968, 398898, 399820, 400733, 401638,
    402535, 403424, 404305, 405178, 406044, 406902, 407753, 408597, 409434, 410264,
    411087, 411903, 412713, 413516, 414313, 415103, 415888, 416666, 417438, 418205,
    418965
>>
_scores_getter(stats) ==
    <<stats.comments, stats.reposts, stats.quotes, stats.likes, stats.views, stats.bookmarks>>
_calculate_score_no_likes(stats_dict, created_at) ==
    LET s == _scores_getter(stats_dict)
        twice == (s[1] + s[2] + s[3]) * 10 + s[5]
    IN  created_at * 1000 + LogMilli[twice + 1]
_calculate_score(stats_dict, created_at) ==
    LET s == _scores_getter(stats_dict)
        twice == (s[1] + s[2] + s[3]) * 10 + s[4] * 4 + s[5]
    IN  created_at * 1000 + LogMilli[twice + 1]
StatKeys == {"comments", "reposts", "quotes", "likes", "views", "bookmarks"}
ZeroStats == [comments |-> 0, reposts |-> 0, quotes |-> 0, likes |-> 0, views |-> 0, bookmarks |-> 0]

\* ------------------------------------------------------------------- state
\* What get_engagement returns: the counters (a counter of 0 is left out of the
\* dict, read here as 0) and the viewer's interaction flags that are set.
NoSnapshot == [counts |-> ZeroStats, flags |-> {}]
Call(op, user, id) ==
    [op |-> op, user |-> user, id |-> id, other |-> NoUser, type |-> "", is_comment |-> FALSE,
     start |-> 0, end |-> 0, result |-> <<>>, end_count |-> 0, round_trips |-> 0, tags |-> {},
     snapshot |-> NoSnapshot]

InitStore ==
    /\ feeds_meta = [f \in Ids |-> EmptyMeta]
    /\ feeds_comments = [f \in Ids |-> {}]
    /\ feeds_eng = [f \in Ids |-> [t \in EngagementType |-> {}]]
    /\ comments_comments = [c \in Ids |-> {}]
    /\ comments_eng = [c \in Ids |-> [t \in EngagementType |-> {}]]
    /\ comments_author_id = [c \in Ids |-> NoUser]
    /\ comments_parent_id = [c \in Ids |-> NoId]
    /\ users_comments = [u \in Users |-> {}]
    /\ users_eng = [u \in Users |-> [t \in EngagementType |-> {}]]
    /\ followers = [u \in Users |-> {}]
    /\ followings = [u \in Users |-> {}]
    /\ profile = [u \in Users |-> [feeds_count |-> 0, followers_count |-> 0, followings_count |-> 0]]
    /\ global_timeline = EmptyZ
    /\ following_timeline = [u \in Users |-> EmptyZ]
    /\ user_timeline = [u \in Users |-> EmptyZ]
    /\ inserted = [gt |-> EmptyZ, ft |-> [u \in Users |-> EmptyZ], ut |-> [u \in Users |-> EmptyZ]]
    /\ used = {}
    /\ ncalls = 0
    /\ last = Call("init", NoUser, NoId)

\* A request slot: the call in progress and the values its reads returned.
NoRequest ==
    [op |-> "none", user |-> NoUser, other |-> NoUser, id |-> NoId, created_at |-> 0,
     is_feed |-> FALSE, members |-> {}, entries |-> EmptyZ,
     engagement_map |-> [t \in EngagementType |-> {}]]

\* An id the cache holds as a feed or as a comment.
Cached(x) == HExists(x) \/ comments_author_id[x] # NoUser

\* ------------------------------------------------------------- create_feed
\* The follower set read before the pipeline is built.
FanOutTargetsNone(author_id) == {}
FanOutTargets(author_id) == followers[author_id]

\* Branch taken when the mapping carries a parent_id.
CreateComment(author_id, feed_id, parent_id) ==
    LET is_parent_feed == HExists(parent_id)
    IN  /\ feeds_comments' =
            IF is_parent_feed
            THEN [feeds_comments EXCEPT ![parent_id] = SAdd(@, feed_id)]
            ELSE feeds_comments
        /\ comments_comments' =
            IF is_parent_feed
            THEN comments_comments
            ELSE [comments_comments EXCEPT ![parent_id] = SAdd(@, feed_id)]
        /\ users_comments' = [users_comments EXCEPT ![author_id] = SAdd(@, feed_id)]
        /\ comments_author_id' = [comments_author_id EXCEPT ![feed_id] = author_id]
        /\ comments_parent_id' = [comments_parent_id EXCEPT ![feed_id] = parent_id]
        /\ UNCHANGED <<feeds_meta, feeds_eng, comments_eng, users_eng, followers, followings,
                       profile, global_timeline, following_timeline, user_timeline, inserted>>

\* Branch for a top-level feed: the metadata hash and the fan-out, one pipeline.
CreatePipeline(author_id, feed_id, created_at, targets) ==
    LET initial_score == _calculate_score(ZeroStats, created_at)
        entry == [x \in {feed_id} |-> initial_score]
    IN  /\ feeds_meta' = [feeds_meta EXCEPT
                ![feed_id] = [id |-> feed_id, author_id |-> author_id, created_at |-> created_at,
                              fields |-> {"body"}]]
        /\ global_timeline' = AddAndTrim(global_timeline, entry, max_gt)
        /\ user_timeline' = [user_timeline EXCEPT ![author_id] = AddAndTrim(@, entry, max_ut)]
        /\ following_timeline' =
            [u \in Users |->
                IF u = author_id \/ u \in targets
                THEN AddAndTrim(following_timeline[u], entry, max_ft)
                ELSE following_timeline[u]]
        /\ profile' = [profile EXCEPT ![author_id].feeds_count = @ + 1]
        /\ inserted' =
            [gt |-> ZAdd(inserted.gt, entry),
             ut |-> [inserted.ut EXCEPT ![author_id] = ZAdd(@, entry)],
             ft |-> [u \in Users |->
                        IF u = author_id \/ u \in targets
                        THEN ZAdd(inserted.ft[u], entry)
                        ELSE inserted.ft[u]]]
        /\ UNCHANGED <<feeds_comments, feeds_eng, comments_comments, comments_eng,
                       comments_author_id, comments_parent_id, users_comments, users_eng,
                       followers, followings>>

CreateTopLevel(author_id, feed_id, created_at) ==
    CreatePipeline(author_id, feed_id, created_at, FanOutTargets(author_id))

\* `if parent_id is not None`
IsCommentNever(parent_id) == FALSE
IsComment(parent_id) == parent_id # NoId
create_feed(author_id, feed_id, parent_id, created_at) ==
    /\ IF IsComment(parent_id)
       THEN CreateComment(author_id, feed_id, parent_id)
       ELSE CreateTopLevel(author_id, feed_id, created_at)
    /\ last' = [Call("create_feed", author_id, feed_id) EXCEPT
                    !.is_comment = (parent_id # NoId),
                    !.tags = (IF parent_id = NoId /\ followers[author_id] # {} THEN {"fan_out"} ELSE {})
                             \cup (IF parent_id # NoId /\ ~HExists(parent_id) THEN {"nested"} ELSE {})]

\* ------------------------------------------------------------- update_feed
\* Keys the update route writes, and whether the value it passes is None.
UpdateKeys == {"body", "image_url"}
\* hdel of the key when the value is None (a hash left without fields is gone),
\* hset of the key otherwise.
update_feed(feed_id, key, is_none) ==
    /\ feeds_meta' =
        IF is_none
        THEN [feeds_meta EXCEPT ![feed_id].fields = @ \ {key}]
        ELSE [feeds_meta EXCEPT ![feed_id].fields = @ \cup {key}]
    /\ last' = [Call("update_feed", NoUser, feed_id) EXCEPT !.type = key]
    /\ UNCHANGED <<feeds_comments, feeds_eng, comments_comments, comments_eng,
                   comments_author_id, comments_parent_id, users_comments, users_eng,
                   followers, followings, profile, global_timeline, following_timeline,
                   user_timeline, inserted>>

\* ------------------------------------------------------------- delete_feed
RECURSIVE SetToSeq(_)
SetToSeq(S) ==
    IF S = {} THEN <<>>
    ELSE LET x == CHOOSE m \in S : \A y \in S : m <= y
         IN  <<x>> \o SetToSeq(S \ {x})
\* One iteration of the while loop: pop the last id, read its adjacency set
\* under the current prefix, collect and queue the children.
loop_body_keeps_prefix(queue, collected, prefix) ==
    LET current == queue[Len(queue)]
        rest == SubSeq(queue, 1, Len(queue) - 1)
        children == IF prefix = "feeds" THEN feeds_comments[current]
                    ELSE comments_comments[current]
    IN  [queue |-> rest \o SetToSeq(children), collected |-> collected \cup children,
         prefix |-> prefix]
loop_body(queue, collected, prefix) ==
    LET current == queue[Len(queue)]
        rest == SubSeq(queue, 1, Len(queue) - 1)
        children == IF prefix = "feeds" THEN feeds_comments[current]
                    ELSE comments_comments[current]
    IN  [queue |-> rest \o SetToSeq(children), collected |-> collected \cup children,
         prefix |-> "comments"]
RECURSIVE nested_loop(_, _, _)
nested_loop(queue, collected, prefix) ==
    IF queue = <<>>
    THEN collected
    ELSE LET n == loop_body(queue, collected, prefix)
         IN  nested_loop(n.queue, n.collected, n.prefix)
\* A call of get_all_nested_comment_ids that has not started.
NoWalk == [at |-> "idle", feed_id |-> NoId, queue |-> <<>>, collected |-> {},
           prefix |-> "comments"]
get_all_nested_comment_ids(feed_id, is_feed) ==
    nested_loop(<<feed_id>>, {}, IF is_feed THEN "feeds" ELSE "comments")

\* The first two pipelines of delete_feed: the authors of the collected
\* comments are read, then every collected comment's keys are dropped and the
\* comment is removed from its author's sets.
CommentsOf(aid, comment_ids) == {c \in comment_ids : comments_author_id[c] = aid}
\* comments:{cid}:parent_id of every collected comment is deleted by that pipeline.
CleanedParentPointers(comment_ids) ==
    [c \in Ids |-> IF c \in comment_ids THEN NoId ELSE comments_parent_id[c]]

\* Everything delete_feed does once the nested comment ids are collected.
DeletePipelines(author_id, feed_id, is_feed, nested, follower_ids, engagement_map) ==
    LET is_comment == ~is_feed
        comment_ids == IF is_comment THEN nested \cup {feed_id} ELSE nested
        authored == [u \in Users |-> CommentsOf(u, comment_ids)]
        \* comments:{feed_id}:parent_id, read once the comment pipeline has run
        parent_id == CleanedParentPointers(comment_ids)[feed_id]
        is_parent_feed == parent_id # NoId /\ HExists(parent_id)
        cleaned_adj == [c \in Ids |-> IF c \in comment_ids THEN {} ELSE comments_comments[c]]
    IN  /\ comments_eng' = [c \in Ids |->
                IF c \in comment_ids THEN [t \in EngagementType |-> {}] ELSE comments_eng[c]]
        /\ users_comments' = [u \in Users |-> users_comments[u] \ authored[u]]
        /\ comments_author_id' = [c \in Ids |->
                IF c \in comment_ids THEN NoUser ELSE comments_author_id[c]]
        /\ comments_parent_id' = CleanedParentPointers(comment_ids)
        /\ IF is_feed
           THEN /\ global_timeline' = ZRem(global_timeline, {feed_id})
                /\ user_timeline' = [user_timeline EXCEPT ![author_id] = ZRem(@, {feed_id})]
                /\ following_timeline' =
                    [u \in Users |->
                        IF u = author_id \/ u \in follower_ids
                        THEN ZRem(following_timeline[u], {feed_id})
                        ELSE following_timeline[u]]
                /\ users_eng' = [u \in Users |-> [t \in EngagementType |->
                        IF u \in engagement_map[t]
                        THEN SRem(users_eng[u][t] \ authored[u], feed_id)
                        ELSE users_eng[u][t] \ authored[u]]]
                /\ feeds_eng' = [feeds_eng EXCEPT ![feed_id] = [t \in EngagementType |-> {}]]
                /\ feeds_comments' = [feeds_comments EXCEPT ![feed_id] = {}]
                /\ comments_comments' = cleaned_adj
                /\ feeds_meta' = [feeds_meta EXCEPT ![feed_id] = EmptyMeta]
                /\ profile' = [profile EXCEPT ![author_id].feeds_count = @ - 1]
                /\ inserted' =
                    [gt |-> ZRem(inserted.gt, {feed_id}),
                     ut |-> [inserted.ut EXCEPT ![author_id] = ZRem(@, {feed_id})],
                     ft |-> [u \in Users |->
                                IF u = author_id \/ u \in follower_ids
                                THEN ZRem(inserted.ft[u], {feed_id})
                                ELSE inserted.ft[u]]]
           ELSE /\ users_eng' = [u \in Users |-> [t \in EngagementType |->
                        users_eng[u][t] \ authored[u]]]
                /\ feeds_comments' =
                    IF parent_id # NoId /\ is_parent_feed
                    THEN [feeds_comments EXCEPT ![parent_id] = SRem(@, feed_id)]
                    ELSE feeds_comments
                /\ comments_comments' =
                    IF parent_id # NoId /\ ~is_parent_feed
                    THEN [cleaned_adj EXCEPT ![parent_id] = SRem(@, feed_id)]
                    ELSE cleaned_adj
                /\ UNCHANGED <<feeds_meta, feeds_eng, profile, global_timeline,
                               following_timeline, user_timeline, inserted>>
        /\ last' = [Call("delete_feed", author_id, feed_id) EXCEPT
                        !.is_comment = is_comment,
                        !.tags = (IF is_feed THEN {"feed"} ELSE {})
                                 \cup (IF Cached(feed_id) THEN {"cached"} ELSE {})
                                 \cup (IF \E c \in nested : comments_comments[c] # {} THEN {"deep"} ELSE {})
                                 \cup (IF is_feed /\ feeds_meta[feed_id].author_id = author_id
                                       THEN {"by_author"} ELSE {})
                                 \cup (IF is_feed /\ follower_ids # {} THEN {"followers"} ELSE {})
                                 \cup (IF is_feed /\ \E t \in EngagementType : feeds_eng[feed_id][t] # {}
                                       THEN {"engaged"} ELSE {})
                                 \cup (IF \E c \in nested, t \in EngagementType :
                                            comments_eng[c][t] \ {comments_author_id[c]} # {}
                                       THEN {"comment_engaged_by_other"} ELSE {})]
        /\ UNCHANGED <<followers, followings>>

\* The follower set and the engagement sets are read while the last pipeline
\* is prepared.
DeleteCollected(author_id, feed_id, is_feed, nested) ==
    DeletePipelines(author_id, feed_id, is_feed, nested, followers[author_id],
                    feeds_eng[feed_id])

delete_feed(author_id, feed_id) ==
    LET is_feed == HExists(feed_id)
    IN  \E nested \in {get_all_nested_comment_ids(feed_id, is_feed)} :
            DeleteCollected(author_id, feed_id, is_feed, nested)

\* ------------------------------------------------- add_follower / remove_follower
AddFollowerPipeline(user_id, following_id, following_feed_ids) ==
        /\ followers' = [followers EXCEPT ![following_id] = SAdd(@, user_id)]
        /\ followings' = [followings EXCEPT ![user_id] = SAdd(@, following_id)]
        /\ profile' = [u \in Users |->
                [profile[u] EXCEPT
                    !.followers_count = @ + (IF u = following_id THEN 1 ELSE 0),
                    !.followings_count = @ + (IF u = user_id THEN 1 ELSE 0)]]
        /\ following_timeline' =
            IF DOMAIN following_feed_ids # {}
            THEN [following_timeline EXCEPT ![user_id] = AddAndTrim(@, following_feed_ids, max_ft)]
            ELSE following_timeline
        /\ inserted' = [inserted EXCEPT !.ft[user_id] = ZAdd(@, following_feed_ids)]
        /\ last' = [Call("add_follower", user_id, NoId) EXCEPT !.other = following_id]
        /\ UNCHANGED <<feeds_meta, feeds_comments, feeds_eng, comments_comments, comments_eng,
                       comments_author_id, comments_parent_id, users_comments, users_eng,
                       global_timeline, user_timeline>>

add_follower(user_id, following_id) ==
    AddFollowerPipeline(user_id, following_id, ZRangeWithScores(user_timeline[following_id]))

RemoveFollowerPipeline(user_id, following_id, following_feed_ids) ==
        /\ followers' = [followers EXCEPT ![following_id] = SRem(@, user_id)]
        /\ followings' = [followings EXCEPT ![user_id] = SRem(@, following_id)]
        /\ profile' = [u \in Users |->
                [profile[u] EXCEPT
                    !.followers_count = @ - (IF u = following_id THEN 1 ELSE 0),
                    !.followings_count = @ - (IF u = user_id THEN 1 ELSE 0)]]
        /\ following_timeline' = [following_timeline EXCEPT ![user_id] = ZRem(@, following_feed_ids)]
        /\ inserted' = [inserted EXCEPT !.ft[user_id] = ZRem(@, following_feed_ids)]
        /\ last' = [Call("remove_follower", user_id, NoId) EXCEPT !.other = following_id]
        /\ UNCHANGED <<feeds_meta, feeds_comments, feeds_eng, comments_comments, comments_eng,
                       comments_author_id, comments_parent_id, users_comments, users_eng,
                       global_timeline, user_timeline>>

remove_follower(user_id, following_id) ==
    RemoveFollowerPipeline(user_id, following_id, DOMAIN user_timeline[following_id])

\* ------------------------------------------- create_profile / delete_profile
\* The counters a profile mapping carries (they come from the database row).
Counts == 0..1
\* One pipeline: hset of the mapping on users:{uid}:profile and, for a viewer
\* who follows uid, sadd of the viewer to users:{uid}:followers.
create_profile(uid, followers_count, followings_count, user_id, is_following) ==
    /\ profile' = [profile EXCEPT ![uid].followers_count = followers_count,
                                  ![uid].followings_count = followings_count]
    /\ followers' =
        IF user_id # NoUser /\ is_following
        THEN [followers EXCEPT ![uid] = SAdd(@, user_id)]
        ELSE followers
    /\ last' = [Call("create_profile", user_id, NoId) EXCEPT
                    !.other = uid, !.tags = IF is_following THEN {"is_following"} ELSE {}]
    /\ UNCHANGED <<feeds_meta, feeds_comments, feeds_eng, comments_comments, comments_eng,
                   comments_author_id, comments_parent_id, users_comments, users_eng,
                   followings, global_timeline, following_timeline, user_timeline, inserted>>

\* lrange of user:{user_id}:user_timeline: every writer of the own timeline
\* uses the key users:{user_id}:user_timeline, so this key never exists.
lrange(user_id) == {}
\* delete_profile: the two follow sets and the list of feed ids are read, then
\* one pipeline deletes the profile hash, users:{id}:user_timeline, both follow
\* sets (and user:{id}:following_timeline, a key nothing writes), takes the
\* user out of the follow sets of the other side and, per feed id read, zrems
\* it from global_timeline (and from users:{follower}:home_timeline, a key
\* nothing writes) and deletes its meta hash.  The delete_feed calls that
\* follow the pipeline run once per feed id read.
delete_profile(user_id) ==
    LET follower_ids == followers[user_id]
        following == followings[user_id]
        feed_ids == lrange(user_id)
    IN  /\ profile' = [profile EXCEPT ![user_id] =
                [feeds_count |-> 0, followers_count |-> 0, followings_count |-> 0]]
        /\ user_timeline' = [user_timeline EXCEPT ![user_id] = EmptyZ]
        /\ followers' = [u \in Users |->
                IF u = user_id THEN {}
                ELSE IF u \in following THEN SRem(followers[u], user_id) ELSE followers[u]]
        /\ followings' = [u \in Users |->
                IF u = user_id THEN {}
                ELSE IF u \in follower_ids THEN SRem(followings[u], user_id) ELSE followings[u]]
        /\ global_timeline' = ZRem(global_timeline, feed_ids)
        /\ feeds_meta' = [f \in Ids |-> IF f \in feed_ids THEN EmptyMeta ELSE feeds_meta[f]]
        /\ inserted' = [inserted EXCEPT !.gt = ZRem(@, feed_ids), !.ut[user_id] = EmptyZ]
        /\ last' = [Call("delete_profile", user_id, NoId) EXCEPT
                        !.tags = (IF follower_ids # {} THEN {"followers"} ELSE {})
                                 \cup (IF user_timeline[user_id] # EmptyZ THEN {"posts"} ELSE {})
                                 \cup (IF following_timeline[user_id] # EmptyZ
                                       THEN {"following_timeline"} ELSE {})]
        /\ UNCHANGED <<feeds_comments, feeds_eng, comments_comments, comments_eng,
                       comments_author_id, comments_parent_id, users_comments, users_eng,
                       following_timeline>>

\* ------------------------------------------- set_engagement / remove_engagement
_engagement_keys(feed_id, user_id, engagement_type, is_comment) ==
    [prefix |-> IF is_comment THEN "comments" ELSE "feeds", id |-> feed_id,
     type |-> engagement_type, user |-> user_id]

\* The flag get_engagement reports for each engagement type (zip of its two lists).
InteractionKey ==
    [reposts |-> "reposted", quotes |-> "quoted", likes |-> "liked",
     views |-> "viewed", bookmarks |-> "bookmarked"]
\* One pipeline of six scard and five sismember on the keys of the prefix.
get_engagement(user_id, feed_id, is_comment) ==
    LET eng == IF is_comment THEN comments_eng[feed_id] ELSE feeds_eng[feed_id]
        adj == IF is_comment THEN comments_comments[feed_id] ELSE feeds_comments[feed_id]
    IN  [counts |-> [k \in StatKeys |->
                        IF k = "comments" THEN Cardinality(adj) ELSE Cardinality(eng[k])],
         flags |-> {InteractionKey[t] : t \in {k \in EngagementType : user_id \in eng[k]}}]

\* One membership command (sadd when adding, srem otherwise) on the entity's set
\* and one on the user's reverse index, submitted as a single pipeline.
Membership(s, m, adding) == IF adding THEN SAdd(s, m) ELSE SRem(s, m)
EngagementPipeline(keys, adding) ==
    /\ feeds_eng' =
        IF keys.prefix = "feeds"
        THEN [feeds_eng EXCEPT ![keys.id][keys.type] = Membership(@, keys.user, adding)]
        ELSE feeds_eng
    /\ comments_eng' =
        IF keys.prefix = "comments"
        THEN [comments_eng EXCEPT ![keys.id][keys.type] = Membership(@, keys.user, adding)]
        ELSE comments_eng
    /\ users_eng' = [users_eng EXCEPT ![keys.user][keys.type] = Membership(@, keys.id, adding)]

set_engagement(user_id, feed_id, engagement_type, is_comment) ==
    LET keys == _engagement_keys(feed_id, user_id, engagement_type, is_comment)
    IN  /\ EngagementPipeline(keys, TRUE)
        /\ UNCHANGED <<feeds_meta, feeds_comments, comments_comments, comments_author_id,
                       comments_parent_id, users_comments, followers, followings, profile,
                       global_timeline, following_timeline, user_timeline, inserted>>
        \* the snapshot is read once the pipeline has run, is_comment left at its default
        /\ last' = [Call("set_engagement", user_id, feed_id) EXCEPT
                        !.type = engagement_type, !.is_comment = is_comment,
                        !.snapshot = get_engagement(user_id, feed_id, FALSE)',
                        !.tags = IF feed_id \in users_eng[user_id][engagement_type]
                                    /\ user_id \in (IF is_comment THEN comments_eng ELSE feeds_eng)[feed_id][engagement_type]
                                 THEN {"repeat"} ELSE {}]

remove_engagement(user_id, feed_id, engagement_type, is_comment) ==
    LET keys == _engagement_keys(feed_id, user_id, engagement_type, is_comment)
    IN  /\ EngagementPipeline(keys, FALSE)
        /\ UNCHANGED <<feeds_meta, feeds_comments, comments_comments, comments_author_id,
                       comments_parent_id, users_comments, followers, followings, profile,
                       global_timeline, following_timeline, user_timeline, inserted>>
        \* the snapshot is read once the pipeline has run, is_comment left at its default
        /\ last' = [Call("remove_engagement", user_id, feed_id) EXCEPT
                        !.type = engagement_type, !.is_comment = is_comment,
                        !.snapshot = get_engagement(user_id, feed_id, FALSE)',
                        !.tags = IF feed_id \notin users_eng[user_id][engagement_type]
                                    /\ user_id \notin (IF is_comment THEN comments_eng ELSE feeds_eng)[feed_id][engagement_type]
                                 THEN {"non_member"} ELSE {}]

\* ------------------------------------------------------------- timeline reads
\* One pipe.execute(): one submission to the store, whatever it queues.
PipelineExecutePerCommand(queued) == queued
PipelineExecute(queued) == 1

\* Hydration of a page: three pipelines (metadata, engagement, author profiles).
_get_feeds(feed_ids, user_id) ==
    LET feeds == SelectSeq(feed_ids, LAMBDA f : HExists(f))
        per_feed == 6 + (IF user_id # NoUser THEN 5 ELSE 0)
        author_ids == {feeds_meta[feeds[i]].author_id : i \in 1..Len(feeds)}
    IN  [feeds |-> feeds,
         round_trips |-> PipelineExecute(Len(feed_ids))
                         + PipelineExecute(Len(feeds) * per_feed)
                         + PipelineExecute(Cardinality(author_ids))]

\* The page get_following_timeline hands to _get_feeds.
FollowingPageWithBackfill(user_id, start, end) ==
    LET own == ZRevRange(following_timeline[user_id], start, end)
        have == {own[i] : i \in 1..Len(own)}
        pad == SelectSeq(ZRevRange(global_timeline, 0, -1), LAMBDA f : f \notin have)
        want == (end - start) - Len(own)
    IN  IF want > 0 THEN own \o SubSeq(pad, 1, IF want < Len(pad) THEN want ELSE Len(pad)) ELSE own
FollowingPage(user_id, start, end) == ZRevRange(following_timeline[user_id], start, end)

get_following_timeline(user_id, start, end) ==
    LET total_count == ZCard(following_timeline[user_id])
        got == _get_feeds(FollowingPage(user_id, start, end), user_id)
    IN  /\ last' = IF total_count = 0
                   THEN [Call("get_following_timeline", user_id, NoId) EXCEPT
                            !.start = start, !.end = end]
                   ELSE [Call("get_following_timeline", user_id, NoId) EXCEPT
                            !.start = start, !.end = end, !.result = got.feeds,
                            !.end_count = total_count, !.round_trips = got.round_trips,
                            !.tags = {"hydrated"}]
        /\ UNCHANGED <<store, inserted>>

get_discover_timeline(user_id, start, end) ==
    LET total_count == ZCard(global_timeline)
        got == _get_feeds(ZRevRange(global_timeline, start, end), user_id)
    IN  /\ last' = IF total_count = 0
                   THEN [Call("get_discover_timeline", user_id, NoId) EXCEPT
                            !.start = start, !.end = end]
                   ELSE [Call("get_discover_timeline", user_id, NoId) EXCEPT
                            !.start = start, !.end = end, !.result = got.feeds,
                            !.end_count = total_count, !.round_trips = got.round_trips,
                            !.tags = {"hydrated"}]
        /\ UNCHANGED <<store, inserted>>

\* ------------------------------------------------------ score of one post
\* Engagement counts explored per counter of a post: 0..MaxCount.
MaxCount == 2
StatsDicts == [StatKeys -> 0..MaxCount]
NoProbe == [stats |-> ZeroStats, created_at |-> 0, score |-> 0]
Scored(stats_dict, created_at) ==
    [stats |-> stats_dict, created_at |-> created_at,
     score |-> _calculate_score(stats_dict, created_at)]

\* The same post scored again after one more engagement of one kind.
ScoreWithOneMore ==
    /\ \E k \in StatKeys :
        /\ probe.stats[k] < MaxCount
        /\ probe' = Scored([probe.stats EXCEPT ![k] = @ + 1], probe.created_at)
    /\ UNCHANGED <<store, inserted, used, ncalls, last, realtime>>
\* A post with the same counts, created one second later, scored.
ScoreLaterPost ==
    /\ probe.created_at < MaxTime
    /\ probe' = Scored(probe.stats, probe.created_at + 1)
    /\ UNCHANGED <<store, inserted, used, ncalls, last, realtime>>

\* ------------------------------------------------- realtime session controller
\* The methods ChatCacheManager defines.
ChatCacheManagerMethods ==
    {"create_chat", "delete_chat", "get_chats", "is_user_chat_owner", "is_online",
     "add_user_to_chats", "remove_user_from_chats", "add_typing", "remove_typing",
     "get_chat_participants", "get_user_chat_ids"}
\* Attribute lookup on chat_cache_manager: a name the class lacks raises AttributeError.
HasMethod(name) == name \in ChatCacheManagerMethods

\* Handlers a WebSocketContextManager is constructed with: the chat endpoint's,
\* or a handler that accepts the socket and returns.
ConnectHandlers == {"chat_connect", "returns"}
DisconnectHandlers == {"chat_disconnect", "returns"}
\* How _websocket_receiver leaves its loop.
ReceiverExits == {"WebSocketDisconnect", "idle_timeout"}
\* Positions after which the endpoint coroutine runs no more code of the session.
SessionOver == {"raised", "exited", "cancelled"}

WebSocketContextManager(connect_handler, disconnect_handler) ==
    [connect_handler |-> connect_handler, disconnect_handler |-> disconnect_handler,
     at |-> "new", pubsub |-> "None", client_state |-> "CONNECTING",
     listener |-> "none", receiver |-> "none",
     pubsub_closed |-> 0, disconnect_hooks |-> 0, presence_removals |-> 0]

\* chat_connect: register the connection, then look up add_user_to_room.
chat_connect(u) ==
    [registered |-> authorized_connections \cup {u},
     raised |-> ~HasMethod("add_user_to_room")]
\* chat_disconnect: unregister the connection, then look up remove_user_from_room.
chat_disconnect(u) ==
    [registered |-> authorized_connections \ {u},
     raised |-> ~HasMethod("remove_user_from_room")]

\* __aenter__ -> _connect: the connect handler, the subscription, the two tasks.
\* An exception of the connect handler leaves `async with` before its body, so
\* __aexit__ is not called.
_connect(u) ==
    LET s == sessions[u]
        chat == s.connect_handler = "chat_connect"
        raised == chat /\ chat_connect(u).raised
    IN  /\ s.at = "new"
        /\ authorized_connections' =
            IF chat THEN chat_connect(u).registered ELSE authorized_connections
        /\ sessions' = [sessions EXCEPT ![u] =
            IF raised
            THEN [s EXCEPT !.at = "raised", !.client_state = "CONNECTED"]
            ELSE [s EXCEPT !.at = "waiting", !.client_state = "CONNECTED",
                           !.pubsub = "open", !.listener = "running", !.receiver = "running"]]

\* _pubsub_listener returns: the subscription's stream ended or raised.
_pubsub_listener(u) ==
    /\ sessions[u].listener = "running"
    /\ sessions' = [sessions EXCEPT ![u].listener = "done"]
    /\ UNCHANGED authorized_connections

\* _websocket_receiver returns: the client went away, or the idle limit passed.
_websocket_receiver(u, why) ==
    /\ sessions[u].receiver = "running"
    /\ sessions' = [sessions EXCEPT
            ![u].receiver = "done",
            ![u].client_state = IF why = "WebSocketDisconnect" THEN "DISCONNECTED" ELSE @]
    /\ UNCHANGED authorized_connections

Cancelled(task) == IF task = "running" THEN "cancelled" ELSE task
\* wait_until_disconnected: asyncio.wait returns once a task is done (else
\* branch), or the waiting coroutine is cancelled (except branch, which does not
\* re-raise); either way the unfinished tasks are cancelled and gathered.
wait_until_disconnected(u, externally_cancelled) ==
    LET s == sessions[u]
    IN  /\ s.at = "waiting"
        /\ externally_cancelled \/ s.listener = "done" \/ s.receiver = "done"
        /\ sessions' = [sessions EXCEPT ![u] =
                [s EXCEPT !.at = "aexit",
                          !.listener = Cancelled(s.listener),
                          !.receiver = Cancelled(s.receiver)]]
        /\ UNCHANGED authorized_connections

\* __aexit__ -> _disconnect, one await at a time.
\* pubsub.close() returns or raises; its exception is logged and dropped.
ClosePubsub(u, closes) ==
    LET s == sessions[u]
    IN  /\ s.at = "aexit"
        /\ sessions' = [sessions EXCEPT ![u] =
                IF s.pubsub = "open"
                THEN [s EXCEPT !.at = "disconnect_handler",
                               !.pubsub = IF closes THEN "closed" ELSE "close_failed",
                               !.pubsub_closed = @ + 1]
                ELSE [s EXCEPT !.at = "disconnect_handler"]]
        /\ UNCHANGED authorized_connections
\* The handler's exception is logged and dropped by `except Exception`.
DisconnectHandler(u) ==
    LET s == sessions[u]
        chat == s.disconnect_handler = "chat_disconnect"
    IN  /\ s.at = "disconnect_handler"
        /\ authorized_connections' =
            IF chat THEN chat_disconnect(u).registered ELSE authorized_connections
        /\ sessions' = [sessions EXCEPT ![u] =
                [s EXCEPT !.at = "close_websocket",
                          !.disconnect_hooks = @ + 1,
                          !.presence_removals =
                              IF chat /\ ~chat_disconnect(u).raised THEN @ + 1 ELSE @]]
CloseWebSocket(u) ==
    LET s == sessions[u]
    IN  /\ s.at = "close_websocket"
        /\ sessions' = [sessions EXCEPT ![u] =
                [s EXCEPT !.at = "exited",
                          !.client_state = IF @ = "CONNECTED" THEN "DISCONNECTED" ELSE @]]
        /\ UNCHANGED authorized_connections
\* asyncio.CancelledError raised at an await of _disconnect is not an Exception:
\* no handler of _disconnect catches it and the remaining steps are skipped.
CancelledInDisconnect(u) ==
    /\ sessions[u].at \in {"aexit", "disconnect_handler", "close_websocket"}
    /\ sessions' = [sessions EXCEPT ![u].at = "cancelled"]
    /\ UNCHANGED authorized_connections

\* ------------------------------------------- the two loops, message by message
\* Inbound frames and stream messages explored over all sessions together.
MaxFrames == 3
\* What a client can put on the socket, by what receive_json and the loop body
\* make of it.
InboundFrames ==
    {"not_json", "json_not_object", "no_type", "unknown_type", "heartbeat",
     "event_without_participant", "event"}
\* What the subscription's listen() can yield.
StreamMessages ==
    {"subscribe_notice", "no_data", "undecodable", "json_not_object", "no_type",
     "unknown_type", "unhandled_type", "handled", "handler_raises"}

\* One pass of the body of _websocket_receiver's loop over a received frame:
\* what is sent back on the socket, whether the event is published, and whether
\* the loop goes on.  receive_json raising on text that is not JSON is caught
\* inside the loop; received_json.get on a value that is not a dict raises
\* AttributeError outside the inner try, which only the outer handler catches.
_websocket_receiver_frame(frame) ==
    CASE frame = "not_json" ->
            [reply |-> "none", published |-> FALSE, running |-> TRUE]
      [] frame = "json_not_object" ->
            [reply |-> "none", published |-> FALSE, running |-> FALSE]
      [] frame = "no_type" ->
            [reply |-> "detail", published |-> FALSE, running |-> TRUE]
      [] frame = "heartbeat" ->
            [reply |-> "heartbeat_ack", published |-> FALSE, running |-> TRUE]
      [] frame = "unknown_type" ->
            [reply |-> "detail", published |-> FALSE, running |-> TRUE]
      [] frame = "event_without_participant" ->
            [reply |-> "detail", published |-> FALSE, running |-> TRUE]
      [] frame = "event" ->
            [reply |-> "none", published |-> TRUE, running |-> TRUE]

\* One pass of the body of _pubsub_listener's loop over a yielded message: the
\* number of frames sent to the client, whether a handler was called, and
\* whether the loop goes on.
_pubsub_listener_message_unguarded(message) ==
    CASE message \in {"subscribe_notice", "no_data", "undecodable"} ->
            [frames |-> 0, called |-> FALSE, running |-> TRUE]
      [] message \in {"json_not_object", "handler_raises"} ->
            [frames |-> 0, called |-> (message = "handler_raises"), running |-> FALSE]
      [] message \in {"no_type", "unknown_type", "unhandled_type"} ->
            [frames |-> 1, called |-> FALSE, running |-> TRUE]
      [] message = "handled" ->
            [frames |-> 0, called |-> TRUE, running |-> TRUE]
_pubsub_listener_message(message) ==
    CASE message \in {"subscribe_notice", "no_data", "undecodable"} ->
            [frames |-> 0, called |-> FALSE, running |-> TRUE]
      [] message = "json_not_object" ->
            [frames |-> 0, called |-> FALSE, running |-> FALSE]
      [] message \in {"no_type", "unknown_type", "unhandled_type"} ->
            [frames |-> 1, called |-> FALSE, running |-> TRUE]
      [] message = "handled" ->
            [frames |-> 0, called |-> TRUE, running |-> TRUE]
      [] message = "handler_raises" ->
            [frames |-> 1, called |-> TRUE, running |-> TRUE]

\* The traffic of one session so far.
NoTraffic ==
    [inbound |-> 0, frame |-> "none", reply |-> "none", published |-> 0,
     outbound |-> 0, message |-> "none", before |-> "none", sent |-> 0, called |-> 0]
InitTraffic == traffic = [u \in Users |-> NoTraffic]
RECURSIVE Handled(_)
Handled(S) ==
    IF S = {} THEN 0
    ELSE LET u == CHOOSE x \in S : TRUE
         IN  traffic[u].inbound + traffic[u].outbound + Handled(S \ {u})

\* The receiver task of u's session takes one frame off the socket.
receive_json(u, frame) ==
    LET s == sessions[u]
        t == traffic[u]
        did == _websocket_receiver_frame(frame)
    IN  /\ s.at = "waiting"
        /\ s.receiver = "running"
        /\ s.client_state = "CONNECTED"
        /\ traffic' = [traffic EXCEPT ![u] =
                [t EXCEPT !.inbound = @ + 1, !.frame = frame, !.reply = did.reply,
                          !.published = @ + (IF did.published THEN 1 ELSE 0)]]
        /\ sessions' = [sessions EXCEPT ![u].receiver = IF did.running THEN @ ELSE "done"]
        /\ UNCHANGED authorized_connections

\* The listener task of u's session takes one message off the subscription.
listen(u, message) ==
    LET s == sessions[u]
        t == traffic[u]
        did == _pubsub_listener_message(message)
    IN  /\ s.at = "waiting"
        /\ s.listener = "running"
        /\ traffic' = [traffic EXCEPT ![u] =
                [t EXCEPT !.outbound = @ + 1, !.message = message, !.before = t.message,
                          !.sent = @ + did.frames,
                          !.called = @ + (IF did.called THEN 1 ELSE 0)]]
        /\ sessions' = [sessions EXCEPT ![u].listener = IF did.running THEN @ ELSE "done"]
        /\ UNCHANGED authorized_connections

\* --------------------------------------------------------- WebSocketManager
\* The websocket objects handed to one WebSocketManager.
Conns == {"w1", "w2", "w3"}
NoConn == "None"
\* The user_ids argument of broadcast: omitted (None), or a list of user ids.
UserIdLists ==
    {[given |-> FALSE, ids |-> {}]} \cup {[given |-> TRUE, ids |-> S] : S \in SUBSET Users}
\* A websocket before accept(), as the framework hands it to an endpoint.
WebSocket == [application_state |-> "CONNECTING", client |-> "open", user |-> NoUser, left |-> FALSE]
\* WebSocketManager.__init__.
WebSocketManager ==
    [authorized_connections |-> [u \in Users |-> NoConn], unauthorized_connections |-> <<>>]
NoManagerCall ==
    [op |-> "none", websocket |-> NoConn, user_id |-> NoUser,
     user_ids |-> [given |-> FALSE, ids |-> {}], raised |-> FALSE, sent |-> {}]
InitManager ==
    /\ manager = WebSocketManager
    /\ websockets = [w \in Conns |-> WebSocket]
    /\ mcall = NoManagerCall

\* websocket.accept() sends "websocket.accept", which the framework takes only
\* from an application still CONNECTING; otherwise it raises RuntimeError.
accept(websocket) == websockets[websocket].application_state = "CONNECTING"
\* websocket.send_json() goes through on an accepted socket whose client is there.
send_json(ws) ==
    /\ websockets[ws].application_state = "CONNECTED"
    /\ websockets[ws].client = "open"
Pool(m) == {m.unauthorized_connections[i] : i \in 1..Len(m.unauthorized_connections)}
\* list.remove: the first equal element.
Remove(list, x) ==
    LET i == CHOOSE j \in 1..Len(list) : list[j] = x /\ \A k \in 1..(j - 1) : list[k] # x
    IN  SubSeq(list, 1, i - 1) \o SubSeq(list, i + 1, Len(list))

\* connect: accept, then register under the user id or append to the pool; any
\* exception is re-raised as ValueError.
connect(m, websocket, user_id) ==
    IF ~accept(websocket) THEN [manager |-> m, raised |-> TRUE]
    ELSE IF user_id # NoUser
    THEN [manager |-> [m EXCEPT !.authorized_connections[user_id] = websocket], raised |-> FALSE]
    ELSE [manager |-> [m EXCEPT !.unauthorized_connections = Append(@, websocket)],
          raised |-> FALSE]
\* disconnect: pop(user_id, None) when a user id is given, else list.remove of
\* the websocket, whose ValueError for an absent element is re-raised.
disconnect(m, websocket, user_id) ==
    IF user_id # NoUser
    THEN [manager |-> [m EXCEPT !.authorized_connections[user_id] = NoConn], raised |-> FALSE]
    ELSE IF websocket # NoConn
    THEN IF websocket \in Pool(m)
         THEN [manager |-> [m EXCEPT !.unauthorized_connections = Remove(@, websocket)],
               raised |-> FALSE]
         ELSE [manager |-> m, raised |-> TRUE]
    ELSE [manager |-> m, raised |-> FALSE]
\* send_personal_message without its `raise`: a missing connection is logged
\* and the call returns.
send_personal_message_drops(m, user_id) ==
    LET ws == m.authorized_connections[user_id]
    IN  IF ws = NoConn THEN [raised |-> FALSE, sent |-> {}]
        ELSE IF send_json(ws) THEN [raised |-> FALSE, sent |-> {ws}]
        ELSE [raised |-> TRUE, sent |-> {}]
\* send_personal_message: a missing connection is logged, then None.send_json
\* raises AttributeError inside the try, re-raised as ValueError like any
\* failure of the send.
send_personal_message(m, user_id) ==
    LET ws == m.authorized_connections[user_id]
    IN  IF ws # NoConn /\ send_json(ws) THEN [raised |-> FALSE, sent |-> {ws}]
        ELSE [raised |-> TRUE, sent |-> {}]
\* The targets of broadcast: `if user_ids` is false for None and for [].
broadcast_targets(m, user_ids) ==
    IF user_ids.given /\ user_ids.ids # {}
    THEN {m.authorized_connections[uid] :
            uid \in {x \in user_ids.ids : m.authorized_connections[x] # NoConn}}
    ELSE Pool(m)
\* safe_send without its try/except.
safe_send_unguarded(ws) == [raised |-> ~send_json(ws), sent |-> send_json(ws)]
\* safe_send: the exception of a failed send is printed and dropped.
safe_send(ws) == [raised |-> FALSE, sent |-> send_json(ws)]
\* broadcast: gather over safe_send of every target.
broadcast(m, user_ids) ==
    LET targets == broadcast_targets(m, user_ids)
    IN  [raised |-> \E ws \in targets : safe_send(ws).raised,
         sent |-> {ws \in targets : safe_send(ws).sent}]

\* ------------------------------------------------------ presence (feeds:online)
add_user_to_feeds(online, user_id) == SAdd(online, user_id)
remove_user_from_feeds(online, user_id) == SRem(online, user_id)
InitPresence ==
    /\ feeds_online = {}
    /\ timeline_sessions = [w \in Conns |-> [user |-> NoUser, at |-> "new"]]

\* ------------------------------------------------------------ ChatCacheManager
\* The users of the chat surface, and the chat ids uuid4 hands out.
Members == Users \cup {"u3"}
ChatIds == {"c1", "c2", "c3"}
NoChat == "None"
\* The two kinds of last_message a caller hands to create_chat inside mapping:
\* the hash its signature names, and the plain message text.
LastMessages == {"dict", "str"}
\* The keys of the chat surface: users:{u}:chats (highest score first),
\* chats:{c}:meta, chats:{c}:last_message, chats:{c}:participants,
\* chats:online, users:{u}:profile (which registration caches for every user).
ChatCacheManager ==
    [users_chats |-> [u \in Members |-> <<>>], meta |-> {}, last_message |-> {},
     participants |-> [c \in ChatIds |-> {}], online |-> {}, profiles |-> Members]
NoTiles == [chats |-> <<>>, end |-> 0]
NoChatCall ==
    [op |-> "none", user_id |-> NoUser, participant_id |-> NoUser, chat_id |-> NoChat,
     participants |-> {}, start |-> 0, raised |-> FALSE, before |-> ChatCacheManager,
     result |-> NoTiles, undoes |-> FALSE, calls |-> 0]
InitChats ==
    /\ chats = ChatCacheManager
    /\ ccall = NoChatCall
\* The chat-related keys of a chat cache.
ChatState(cache) ==
    [users_chats |-> cache.users_chats, meta |-> cache.meta,
     last_message |-> cache.last_message, participants |-> cache.participants]

\* zadd with the current timestamp puts the member at the head of the
\* descending order; zrevrange reads positions start..end of that order.
zrem(z, member) == SelectSeq(z, LAMBDA m : m # member)
zadd_now(z, member) == <<member>> \o zrem(z, member)
zrevrange(z, start, end) ==
    LET stop == IF end < 0 \/ end + 1 > Len(z) THEN Len(z) ELSE end + 1
    IN  IF start + 1 > stop THEN <<>> ELSE SubSeq(z, start + 1, stop)

\* create_chat: hset with a str as mapping raises before the pipeline executes.
create_chat(cache, user_id, participant_id, chat_id, last_message) ==
    IF last_message = "str" THEN [cache |-> cache, raised |-> TRUE]
    ELSE [cache |->
            [cache EXCEPT
                !.users_chats = [u \in Members |->
                    IF u \in {user_id, participant_id}
                    THEN zadd_now(cache.users_chats[u], chat_id)
                    ELSE cache.users_chats[u]],
                !.meta = SAdd(@, chat_id),
                !.last_message = SAdd(@, chat_id),
                !.participants[chat_id] = @ \cup {user_id, participant_id}],
          raised |-> FALSE]

delete_chat_keeps_meta(cache, participants, chat_id) ==
    [cache EXCEPT
        !.users_chats = [u \in Members |->
            IF u \in participants THEN zrem(cache.users_chats[u], chat_id)
            ELSE cache.users_chats[u]],
        !.last_message = SRem(@, chat_id),
        !.participants[chat_id] = @ \ participants]
\* delete_chat, for a list of at least one participant.
delete_chat(cache, participants, chat_id) ==
    [cache EXCEPT
        !.users_chats = [u \in Members |->
            IF u \in participants THEN zrem(cache.users_chats[u], chat_id)
            ELSE cache.users_chats[u]],
        !.meta = SRem(@, chat_id),
        !.last_message = SRem(@, chat_id),
        !.participants[chat_id] = @ \ participants]

\* get_chats: the page of chat ids, the other participant of each chat that has
\* one (appended in page order), then zip of the two lists, which pairs by
\* position and stops at the shorter one.  A tile carries the id from the meta
\* hash and the last message of the chat at its position, and the profile and
\* online flag of the participant at its position.
get_chats(cache, user_id, start, end) ==
    LET chat_ids == zrevrange(cache.users_chats[user_id], start, end)
        n == Len(chat_ids)
        others == [i \in 1..n |-> cache.participants[chat_ids[i]] \ {user_id}]
        pid_of == [i \in 1..n |->
                     IF others[i] = {} THEN NoUser ELSE CHOOSE p \in others[i] : TRUE]
        participant_ids == SelectSeq(pid_of, LAMBDA p : p # NoUser)
        zipped == [i \in 1..Len(participant_ids) |->
                     [chat |-> chat_ids[i],
                      id |-> IF chat_ids[i] \in cache.meta THEN chat_ids[i] ELSE NoChat,
                      last_message |-> IF chat_ids[i] \in cache.last_message
                                       THEN chat_ids[i] ELSE NoChat,
                      participant |-> participant_ids[i],
                      is_online |-> participant_ids[i] \in cache.online]]
    IN  IF n = 0 THEN NoTiles
        ELSE [chats |-> SelectSeq(zipped, LAMBDA t : t.participant \in cache.profiles),
              end |-> n - 1]

\* add_user_to_chats / remove_user_from_chats: presence in chats:online; the
\* latter also writes last_seen_at into the user's profile hash.
add_user_to_chats(cache, user_id) == [cache EXCEPT !.online = SAdd(@, user_id)]
remove_user_from_chats(cache, user_id) ==
    [cache EXCEPT !.online = SRem(@, user_id), !.profiles = SAdd(@, user_id)]

\* The presence methods the chat hooks call, add_user_to_room and
\* remove_user_from_room, as the specification describes them: membership in
\* the online set is toggled, and the removal stamps last_seen_at on the
\* profile.
add_user_to_room(cache, user_id) == [cache EXCEPT !.online = SAdd(@, user_id)]
remove_user_from_room(cache, user_id) ==
    [cache EXCEPT !.online = SRem(@, user_id), !.profiles = SAdd(@, user_id)]

\* ----------------------------------------------------------- RedisPubSubManager
\* Topic strings, as the tuple of the parts their f-string joins with ":".
\* PubSubTopics.SETTINGS_STATS.value is "settings:stats".
SETTINGS_STATS == <<"settings:stats">>
chats_home(user_id) == <<"chats:home", user_id>>
NoPublish == [op |-> "none", by |-> NoUser, topics |-> {}, recipients |-> {}, delivered |-> {}]
\* subscriptions: one [owner, topic] per open PubSub; the owner is the user of a
\* chat session or the websocket of a statistics endpoint.
RedisPubSubManager == [subscriptions |-> {}, last |-> NoPublish]
subscribe(b, owner, topic) ==
    [b EXCEPT !.subscriptions = @ \cup {[owner |-> owner, topic |-> topic]}]
\* publish: the store hands the message to every subscription of exactly that
\* channel name.
publish(b, topic) == {sub.owner : sub \in {x \in b.subscriptions : x.topic = topic}}
\* The users who share a chat with user_id.
Peers(cache, user_id) ==
    UNION {cache.participants[c] : c \in {x \in ChatIds : user_id \in cache.participants[x]}}
        \ {user_id}
\* The topics chat_connect / chat_disconnect publish on: one per participant id,
\* once the presence method has returned them; none when its lookup raises.
chat_hook_topics(hook, user_id) ==
    IF hook.raised THEN {}
    ELSE {chats_home(pid) : pid \in Peers(chats, user_id)}

\* ------------------------------------- _websocket_receiver to _pubsub_listener
\* Inbound events a receiver publishes, while the explored number allows it.
MaxEvents == 3
\* An inbound frame with a known type and a participant_id, as sent by `by`;
\* live: the named participant held a subscription when it was published.
ChatEvents == [by : Users, participant_id : Users, live : BOOLEAN]
\* published: the events receivers have published; mailbox: what each open
\* subscription has been handed and its listener has not read yet; handled:
\* the events a session's handler has sent to its own user's connection.
NoEvents ==
    [published |-> {}, mailbox |-> [u \in Users |-> <<>>], handled |-> [u \in Users |-> {}],
     count |-> 0]
Subscribed(b, user_id) == [owner |-> user_id, topic |-> chats_home(user_id)] \in b.subscriptions
\* The topic the receiver publishes a recognized event on.
receiver_topic(user_id, participant_id) == chats_home(user_id)
\* _websocket_receiver, last statement of the loop body: publish.
websocket_receiver_publish(r, b, user_id, participant_id) ==
    LET event == [by |-> user_id, participant_id |-> participant_id,
                  live |-> Subscribed(b, participant_id)]
        handed_to == publish(b, receiver_topic(user_id, participant_id))
    IN  [r EXCEPT !.published = @ \cup {event}, !.count = @ + 1,
                  !.mailbox = [u \in Users |->
                      IF u \in handed_to THEN Append(r.mailbox[u], event) ELSE r.mailbox[u]]]
\* _pubsub_listener, one message: the handler registered for the event type is
\* called with the session's own user id and sends the event to that user.
pubsub_listener_dispatch(r, user_id) ==
    [r EXCEPT !.mailbox[user_id] = Tail(@),
              !.handled[user_id] = @ \cup {Head(r.mailbox[user_id])}]

\* ------------------------------------------------ _websocket_receiver and time
\* Time in units of ten seconds: wait_for(..., timeout=30.0) and the 60 of
\* `time.time() - last_activity > 60`.
ReceiveTimeout == 3
IdleLimit == 6
\* The receiver as it enters its loop: last_activity = time.time().  waited is
\* the time the current wait_for has been pending; last_inbound, timeouts and
\* heartbeats record when the last frame arrived and what happened since.
ReceiverStart ==
    [at |-> "receiving", now |-> 0, last_activity |-> 0, waited |-> 0, event |-> "start",
     last_inbound |-> 0, timeouts |-> 0, heartbeats |-> 0]
\* receive_json returned a message: last_activity is set, the loop waits again.
received(r) ==
    [r EXCEPT !.last_activity = r.now, !.waited = 0, !.event = "message",
              !.last_inbound = r.now, !.timeouts = 0, !.heartbeats = 0]
\* receive_json raised on a frame that is not JSON text: `except Exception:
\* continue`, last_activity is left as it was.
invalid_message(r) ==
    [r EXCEPT !.waited = 0, !.event = "invalid",
              !.last_inbound = r.now, !.timeouts = 0, !.heartbeats = 0]
\* asyncio.TimeoutError: break when more than 60 seconds have passed since
\* last_activity, else send the heartbeat and wait again; a failed send breaks.
\* late: the clock is read a moment after the timeout instant.
timed_out(r, late, sent) ==
    LET elapsed == r.now - r.last_activity
    IN  IF elapsed > IdleLimit \/ (elapsed = IdleLimit /\ late)
        THEN [r EXCEPT !.at = "ended", !.event = "timeout_break", !.timeouts = @ + 1]
        ELSE IF sent
        THEN [r EXCEPT !.waited = 0, !.event = "heartbeat", !.timeouts = @ + 1,
                       !.heartbeats = @ + 1]
        ELSE [r EXCEPT !.at = "ended", !.event = "heartbeat_failed", !.timeouts = @ + 1,
                       !.heartbeats = @ + 1]

\* ----------------------------------------------------------- specifications
InitComponents ==
    /\ InitManager
    /\ InitPresence
    /\ InitChats
    /\ walk = NoWalk
    /\ bus = RedisPubSubManager
    /\ rx = ReceiverStart
    /\ inflight = [p \in Procs |-> NoRequest]
    /\ relay = NoEvents
Init ==
    /\ InitStore
    /\ probe = NoProbe
    /\ sessions = [u \in Users |-> WebSocketContextManager("chat_connect", "chat_disconnect")]
    /\ authorized_connections = {}
    /\ InitTraffic
    /\ InitComponents

\* One more writing call, while the explored number of calls allows it.
Budget == ncalls < MaxCalls /\ ncalls' = ncalls + 1
\* The parents a new post can name: none, or a post the cache holds.
Parents == {NoId} \cup {x \in used : Cached(x)}

\* create_feed with any fresh id and any created_at.
CreateFeed ==
    /\ Budget
    /\ \E a \in Users, f \in Ids \ used, p \in Parents, t \in Times :
        /\ create_feed(a, f, p, t)
        /\ used' = used \cup {f}
    /\ UNCHANGED <<probe, realtime>>
\* create_feed as the request path calls it under an advancing clock: ids in
\* issue order, each post stamped later than the one before.
NextId == CHOOSE m \in Ids \ used : \A y \in Ids \ used : m <= y
CreateFeedInOrder ==
    /\ Budget
    /\ Ids \ used # {}
    /\ \E a \in Users, p \in Parents : create_feed(a, NextId, p, NextId)
    /\ used' = used \cup {NextId}
    /\ UNCHANGED <<probe, realtime>>
\* The delete route passes the caller as author_id, whoever wrote the feed.
DeleteFeed ==
    /\ Budget
    /\ \E a \in Users, f \in Ids : delete_feed(a, f)
    /\ UNCHANGED <<used, probe, realtime>>
\* The follow routes reject a user following themself.
AddFollower ==
    /\ Budget
    /\ \E u \in Users : \E v \in Users \ {u} : add_follower(u, v)
    /\ UNCHANGED <<used, probe, realtime>>
RemoveFollower ==
    /\ Budget
    /\ \E u \in Users : \E v \in Users \ {u} : remove_follower(u, v)
    /\ UNCHANGED <<used, probe, realtime>>
\* is_comment is a query parameter of the engagement routes: the client's choice.
SetEngagement ==
    /\ Budget
    /\ \E u \in Users, f \in used, t \in EngInputTypes, c \in BOOLEAN : set_engagement(u, f, t, c)
    /\ UNCHANGED <<used, probe, realtime>>
RemoveEngagement ==
    /\ Budget
    /\ \E u \in Users, f \in used, t \in EngInputTypes, c \in BOOLEAN : remove_engagement(u, f, t, c)
    /\ UNCHANGED <<used, probe, realtime>>
GetFollowingTimeline ==
    /\ \E u \in Users, pg \in Pages : get_following_timeline(u, pg[1], pg[2])
    /\ UNCHANGED <<used, ncalls, probe, realtime>>
GetDiscoverTimeline ==
    /\ \E u \in Users \cup {NoUser}, pg \in Pages : get_discover_timeline(u, pg[1], pg[2])
    /\ UNCHANGED <<used, ncalls, probe, realtime>>

\* Inserts only: posts in any order of creation time, and follows.
NextInsert ==
    \/ CreateFeed
    \/ AddFollower
SpecInsert == Init /\ [][NextInsert]_vars

\* Timeline reads over what posts, follows and deletes leave in the store.
NextRead ==
    \/ CreateFeedInOrder
    \/ AddFollower
    \/ DeleteFeed
    \/ GetFollowingTimeline
    \/ GetDiscoverTimeline
SpecRead == Init /\ [][NextRead]_vars

\* Comment threads, engagement and deletion.
NextThread ==
    \/ CreateFeedInOrder
    \/ SetEngagement
    \/ RemoveEngagement
    \/ DeleteFeed
SpecThread == Init /\ [][NextThread]_vars

\* The update route looks the post up in the database and then patches the
\* cached hash of its id, whether the post is top-level or a comment.
UpdateFeed ==
    /\ Budget
    /\ \E f \in used, k \in UpdateKeys, is_none \in BOOLEAN :
        /\ Cached(f)
        /\ update_feed(f, k, is_none)
    /\ UNCHANGED <<used, probe, realtime>>
\* Posts and comments created, patched and deleted.
NextUpdate ==
    \/ CreateFeedInOrder
    \/ UpdateFeed
    \/ DeleteFeed
SpecUpdate == Init /\ [][NextUpdate]_vars

\* get_profile_route caches a profile on a miss, with the viewer and the
\* database's answer to "does the viewer follow this user"; the sign-in and
\* registration routes cache the caller's own profile with no viewer.
CreateProfile ==
    /\ Budget
    /\ \E uid \in Users, user_id \in Users \cup {NoUser}, is_following \in BOOLEAN,
          c1 \in Counts, c2 \in Counts :
        /\ is_following => user_id \notin {NoUser, uid}
        /\ create_profile(uid, c1, c2, user_id, is_following)
    /\ UNCHANGED <<used, probe, realtime>>
DeleteProfile ==
    /\ Budget
    /\ \E u \in Users : delete_profile(u)
    /\ UNCHANGED <<used, probe, realtime>>
\* Profiles, follows and the posts of the users involved.
NextProfile ==
    \/ CreateFeedInOrder
    \/ AddFollower
    \/ RemoveFollower
    \/ CreateProfile
    \/ DeleteProfile
SpecProfile == Init /\ [][NextProfile]_vars

\* Requests served concurrently: each call awaits its read, and other calls
\* run before its pipeline executes.
outside_race == <<probe, sessions, authorized_connections, traffic, connection_manager,
                  presence, chat_cache, walk, bus, rx, relay>>
Quiescent == \A p \in Procs : inflight[p] = NoRequest
Finished(p) == inflight' = [inflight EXCEPT ![p] = NoRequest]
\* create_feed of a top-level post: smembers of the author's followers ...
CreateFeedReads ==
    /\ Budget
    /\ Ids \ used # {}
    /\ \E p \in Procs, a \in Users :
        /\ inflight[p] = NoRequest
        /\ inflight' = [inflight EXCEPT ![p] =
                [NoRequest EXCEPT !.op = "create_feed", !.user = a, !.id = NextId,
                                  !.created_at = NextId, !.members = FanOutTargets(a)]]
    /\ used' = used \cup {NextId}
    /\ UNCHANGED <<store, inserted, last, outside_race>>
\* ... then the pipeline, fanned out to the followers that were read.
CreateFeedWrites ==
    /\ \E p \in Procs :
        LET r == inflight[p]
        IN  /\ r.op = "create_feed"
            /\ CreatePipeline(r.user, r.id, r.created_at, r.members)
            /\ last' = [Call("create_feed", r.user, r.id) EXCEPT
                            !.tags = IF r.members # {} THEN {"fan_out"} ELSE {}]
            /\ Finished(p)
    /\ UNCHANGED <<used, ncalls, outside_race>>
\* add_follower: zrange of the followed user's own timeline, then the pipeline.
AddFollowerReads ==
    /\ Budget
    /\ \E p \in Procs, u \in Users : \E v \in Users \ {u} :
        /\ inflight[p] = NoRequest
        /\ inflight' = [inflight EXCEPT ![p] =
                [NoRequest EXCEPT !.op = "add_follower", !.user = u, !.other = v,
                                  !.entries = ZRangeWithScores(user_timeline[v])]]
    /\ UNCHANGED <<store, inserted, used, last, outside_race>>
AddFollowerWrites ==
    /\ \E p \in Procs :
        LET r == inflight[p]
        IN  /\ r.op = "add_follower"
            /\ AddFollowerPipeline(r.user, r.other, r.entries)
            /\ Finished(p)
    /\ UNCHANGED <<used, ncalls, outside_race>>
\* remove_follower: zrange of the followed user's own timeline, then the pipeline.
RemoveFollowerReads ==
    /\ Budget
    /\ \E p \in Procs, u \in Users : \E v \in Users \ {u} :
        /\ inflight[p] = NoRequest
        /\ inflight' = [inflight EXCEPT ![p] =
                [NoRequest EXCEPT !.op = "remove_follower", !.user = u, !.other = v,
                                  !.members = DOMAIN user_timeline[v]]]
    /\ UNCHANGED <<store, inserted, used, last, outside_race>>
RemoveFollowerWrites ==
    /\ \E p \in Procs :
        LET r == inflight[p]
        IN  /\ r.op = "remove_follower"
            /\ RemoveFollowerPipeline(r.user, r.other, r.members)
            /\ Finished(p)
    /\ UNCHANGED <<used, ncalls, outside_race>>
\* delete_feed called by the post's author: exists on the meta hash, smembers
\* of the engagement sets and of the author's followers ...
DeleteFeedReads ==
    /\ Budget
    /\ \E p \in Procs, a \in Users, f \in used :
        /\ inflight[p] = NoRequest
        /\ HExists(f) => a = feeds_meta[f].author_id
        /\ inflight' = [inflight EXCEPT ![p] =
                [NoRequest EXCEPT !.op = "delete_feed", !.user = a, !.id = f,
                                  !.is_feed = HExists(f), !.members = followers[a],
                                  !.engagement_map = feeds_eng[f]]]
    /\ UNCHANGED <<store, inserted, used, last, outside_race>>
\* ... then the pipeline over what was read.
DeleteFeedWrites ==
    /\ \E p \in Procs :
        LET r == inflight[p]
        IN  /\ r.op = "delete_feed"
            /\ \E nested \in {get_all_nested_comment_ids(r.id, r.is_feed)} :
                    DeletePipelines(r.user, r.id, r.is_feed, nested, r.members,
                                    r.engagement_map)
            /\ Finished(p)
    /\ UNCHANGED <<used, ncalls, outside_race>>

\* Posts and follows, interleaved.
NextFanOut ==
    \/ CreateFeedReads
    \/ CreateFeedWrites
    \/ AddFollowerReads
    \/ AddFollowerWrites
    \/ RemoveFollowerReads
    \/ RemoveFollowerWrites
SpecFanOut == Init /\ [][NextFanOut]_vars
\* Posts, follows and deletes, interleaved.
NextRace ==
    \/ CreateFeedReads
    \/ CreateFeedWrites
    \/ AddFollowerReads
    \/ AddFollowerWrites
    \/ RemoveFollowerReads
    \/ RemoveFollowerWrites
    \/ DeleteFeedReads
    \/ DeleteFeedWrites
SpecRace == Init /\ [][NextRace]_vars

\* The feed engine's writes together.
Next ==
    \/ CreateFeedInOrder
    \/ AddFollower
    \/ RemoveFollower
    \/ SetEngagement
    \/ RemoveEngagement
    \/ DeleteFeed
Spec == Init /\ [][Next]_vars

\* _calculate_score over every combination of counts and creation times.
InitScore ==
    /\ InitStore
    /\ \E stats_dict \in StatsDicts, created_at \in Times : probe = Scored(stats_dict, created_at)
    /\ sessions = [u \in Users |-> WebSocketContextManager("chat_connect", "chat_disconnect")]
    /\ authorized_connections = {}
    /\ InitTraffic
    /\ InitComponents
NextScore ==
    \/ ScoreWithOneMore
    \/ ScoreLaterPost
SpecScore == InitScore /\ [][NextScore]_vars

\* Realtime sessions of the users, each constructed with some pair of handlers.
InitSession ==
    /\ InitStore
    /\ probe = NoProbe
    /\ sessions \in [Users -> {WebSocketContextManager(c, d) :
                                    c \in ConnectHandlers, d \in DisconnectHandlers}]
    /\ authorized_connections = {}
    /\ InitTraffic
    /\ InitComponents
feed_engine == <<store, inserted, used, ncalls, last, probe>>
Enter ==
    /\ \E u \in Users : _connect(u)
    /\ UNCHANGED <<feed_engine, traffic, components>>
ListenerEnds ==
    /\ \E u \in Users : _pubsub_listener(u)
    /\ UNCHANGED <<feed_engine, traffic, components>>
ReceiverEnds ==
    /\ \E u \in Users, why \in ReceiverExits : _websocket_receiver(u, why)
    /\ UNCHANGED <<feed_engine, traffic, components>>
WaitReturns ==
    /\ \E u \in Users : wait_until_disconnected(u, FALSE)
    /\ UNCHANGED <<feed_engine, traffic, components>>
WaitCancelled ==
    /\ \E u \in Users : wait_until_disconnected(u, TRUE)
    /\ UNCHANGED <<feed_engine, traffic, components>>
ExitPubsub ==
    /\ \E u \in Users, closes \in BOOLEAN : ClosePubsub(u, closes)
    /\ UNCHANGED <<feed_engine, traffic, components>>
ExitHandler ==
    /\ \E u \in Users : DisconnectHandler(u)
    /\ UNCHANGED <<feed_engine, traffic, components>>
ExitWebSocket ==
    /\ \E u \in Users : CloseWebSocket(u)
    /\ UNCHANGED <<feed_engine, traffic, components>>
ExitCancelled ==
    /\ \E u \in Users : CancelledInDisconnect(u)
    /\ UNCHANGED <<feed_engine, traffic, components>>
NextSession ==
    \/ Enter
    \/ ListenerEnds
    \/ ReceiverEnds
    \/ WaitReturns
    \/ WaitCancelled
    \/ ExitPubsub
    \/ ExitHandler
    \/ ExitWebSocket
    \/ ExitCancelled
SpecSession == InitSession /\ [][NextSession]_vars

\* The session's coroutine is scheduled until it returns or raises: the return
\* of asyncio.wait and each step of _disconnect is taken once it can be.  When a
\* loop ends and whether the call is cancelled is up to the client and the server.
SessionRuns ==
    \/ WaitReturns
    \/ ExitPubsub
    \/ ExitHandler
    \/ ExitWebSocket
SpecSessionLive == InitSession /\ [][NextSession]_vars /\ WF_vars(SessionRuns)

\* The loops of sessions whose hooks return, fed frames and messages.
InitLoops ==
    /\ InitStore
    /\ probe = NoProbe
    /\ sessions = [u \in Users |-> WebSocketContextManager("returns", "returns")]
    /\ authorized_connections = {}
    /\ InitTraffic
    /\ InitComponents
Receive ==
    /\ Handled(Users) < MaxFrames
    /\ \E u \in Users, frame \in InboundFrames : receive_json(u, frame)
    /\ UNCHANGED <<feed_engine, components>>
Listen ==
    /\ Handled(Users) < MaxFrames
    /\ \E u \in Users, message \in StreamMessages : listen(u, message)
    /\ UNCHANGED <<feed_engine, components>>
EnterLoops ==
    /\ \E u \in Users : _connect(u)
    /\ UNCHANGED <<feed_engine, traffic, components>>
NextLoops ==
    \/ EnterLoops
    \/ Receive
    \/ Listen
SpecLoops == InitLoops /\ [][NextLoops]_vars

\* One WebSocketManager under the calls its endpoints make.
other_components == <<feed_engine, sessions, authorized_connections, traffic, extensions>>
\* An endpoint connects the websocket it was handed, with or without a user id.
ManagerConnect ==
    /\ \E w \in Conns, u \in Users \cup {NoUser} :
        LET r == connect(manager, w, u)
        IN  /\ manager' = r.manager
            /\ websockets' = IF r.raised THEN websockets
                             ELSE [websockets EXCEPT ![w] =
                                    [@ EXCEPT !.application_state = "CONNECTED", !.user = u]]
            /\ mcall' = [NoManagerCall EXCEPT !.op = "connect", !.websocket = w,
                                              !.user_id = u, !.raised = r.raised]
    /\ UNCHANGED <<other_components, presence>>
\* The client of an accepted websocket goes away.
ClientCloses ==
    /\ \E w \in Conns :
        /\ send_json(w)
        /\ websockets' = [websockets EXCEPT ![w].client = "gone"]
        /\ mcall' = [NoManagerCall EXCEPT !.op = "client_closes", !.websocket = w]
    /\ UNCHANGED <<manager, other_components, presence>>
\* The endpoint of a websocket whose client is gone disconnects it, with the
\* user id it connected it with.
ManagerDisconnect ==
    /\ \E w \in Conns :
        LET u == websockets[w].user
            r == disconnect(manager, w, u)
        IN  /\ websockets[w].client = "gone"
            /\ manager' = r.manager
            /\ websockets' = [websockets EXCEPT ![w].left = TRUE]
            /\ mcall' = [NoManagerCall EXCEPT !.op = "disconnect", !.websocket = w,
                                              !.user_id = u, !.raised = r.raised]
    /\ UNCHANGED <<other_components, presence>>
SendPersonalMessage ==
    /\ \E u \in Users :
        LET r == send_personal_message(manager, u)
        IN  mcall' = [NoManagerCall EXCEPT !.op = "send_personal_message", !.user_id = u,
                          !.websocket = manager.authorized_connections[u],
                          !.raised = r.raised, !.sent = r.sent]
    /\ UNCHANGED <<manager, websockets, other_components, presence>>
Broadcast ==
    /\ \E user_ids \in UserIdLists :
        LET r == broadcast(manager, user_ids)
        IN  mcall' = [NoManagerCall EXCEPT !.op = "broadcast", !.user_ids = user_ids,
                          !.raised = r.raised, !.sent = r.sent]
    /\ UNCHANGED <<manager, websockets, other_components, presence>>
NextManager ==
    \/ ManagerConnect
    \/ ClientCloses
    \/ ManagerDisconnect
    \/ SendPersonalMessage
    \/ Broadcast
SpecManager == Init /\ [][NextManager]_vars

\* The presence calls of the feeds surface: home_timeline marks its user online
\* once it is set up, and _cleanup_connection marks the user offline.
SessionStarts ==
    /\ \E w \in Conns, u \in Users :
        /\ timeline_sessions[w].at = "new"
        /\ feeds_online' = add_user_to_feeds(feeds_online, u)
        /\ timeline_sessions' = [timeline_sessions EXCEPT ![w] = [user |-> u, at |-> "live"]]
    /\ UNCHANGED <<other_components, connection_manager>>
SessionEnds ==
    /\ \E w \in Conns :
        /\ timeline_sessions[w].at = "live"
        /\ feeds_online' = remove_user_from_feeds(feeds_online, timeline_sessions[w].user)
        /\ timeline_sessions' = [timeline_sessions EXCEPT ![w].at = "ended"]
    /\ UNCHANGED <<other_components, connection_manager>>
NextPresence ==
    \/ SessionStarts
    \/ SessionEnds
SpecPresence == Init /\ [][NextPresence]_vars

\* The chat cache under the calls of the chat routes and of the chat presence
\* hooks; profiles are cached and dropped by the users surface.
outside_chats == <<feed_engine, sessions, authorized_connections, traffic,
                   connection_manager, presence, walk, bus, rx, inflight, relay>>
\* One more call on the chat cache, while the explored number allows it.
ChatBudget == ccall.calls < MaxChatCalls
\* create_chat_tile_route: a chat between two different users under a new uuid4,
\* which no key of the cache mentions.
CreateChat ==
    /\ ChatBudget
    /\ \E u \in Members, p \in Members, c \in ChatIds, m \in LastMessages :
        LET r == create_chat(chats, u, p, c, m)
        IN  /\ u # p
            /\ \A x \in Members : zrem(chats.users_chats[x], c) = chats.users_chats[x]
            /\ c \notin chats.meta \cup chats.last_message
            /\ chats.participants[c] = {}
            /\ chats' = r.cache
            /\ ccall' = [NoChatCall EXCEPT !.op = "create_chat", !.user_id = u,
                            !.participant_id = p, !.chat_id = c, !.raised = r.raised,
                            !.before = chats, !.calls = ccall.calls + 1]
    /\ UNCHANGED outside_chats
DeleteChat ==
    /\ ChatBudget
    /\ \E ps \in (SUBSET Members) \ {{}}, c \in ChatIds :
        /\ chats' = delete_chat(chats, ps, c)
        /\ ccall' = [NoChatCall EXCEPT !.op = "delete_chat", !.participants = ps,
                        !.chat_id = c, !.calls = ccall.calls + 1,
                        !.undoes = /\ ccall.op = "create_chat" /\ ~ccall.raised
                                   /\ ccall.chat_id = c
                                   /\ ps = {ccall.user_id, ccall.participant_id},
                        !.before = IF ccall.op = "create_chat" THEN ccall.before
                                   ELSE ChatCacheManager]
    /\ UNCHANGED outside_chats
GetChats ==
    /\ ChatBudget
    /\ \E u \in Members, start \in 0..1, end \in 0..2 :
        /\ start <= end
        /\ ccall' = [NoChatCall EXCEPT !.op = "get_chats", !.user_id = u, !.start = start,
                        !.result = get_chats(chats, u, start, end),
                        !.calls = ccall.calls + 1]
    /\ UNCHANGED <<chats, outside_chats>>
AddUserToChats ==
    /\ ChatBudget
    /\ \E u \in Members :
        /\ chats' = add_user_to_chats(chats, u)
        /\ ccall' = [NoChatCall EXCEPT !.op = "add_user_to_chats", !.user_id = u,
                        !.calls = ccall.calls + 1]
    /\ UNCHANGED outside_chats
RemoveUserFromChats ==
    /\ ChatBudget
    /\ \E u \in Members :
        /\ chats' = remove_user_from_chats(chats, u)
        /\ ccall' = [NoChatCall EXCEPT !.op = "remove_user_from_chats", !.user_id = u,
                        !.calls = ccall.calls + 1]
    /\ UNCHANGED outside_chats
\* A profile hash is cached (create_profile) or dropped (delete_profile).
CacheProfile ==
    /\ ChatBudget
    /\ \E u \in Members :
        /\ chats' = [chats EXCEPT !.profiles = SAddToggle(@, u)]
        /\ ccall' = [NoChatCall EXCEPT !.op = "profile", !.user_id = u,
                        !.calls = ccall.calls + 1]
    /\ UNCHANGED outside_chats
NextChats ==
    \/ CreateChat
    \/ DeleteChat
    \/ GetChats
    \/ AddUserToChats
    \/ RemoveUserFromChats
    \/ CacheProfile
SpecChats == Init /\ [][NextChats]_vars

\* get_all_nested_comment_ids, one loop iteration at a time, over the adjacency
\* sets that posts and comments created so far have written.
outside_walk == <<feed_engine, sessions, authorized_connections, traffic,
                  connection_manager, presence, chat_cache, bus, rx, inflight, relay>>
\* Posts and comments are created before the first walk starts.
WalkCreate ==
    /\ walk.at = "idle"
    /\ CreateFeedInOrder
\* delete_feed starts the walk with is_feed read from the meta hash.
WalkStart ==
    /\ walk.at # "running"
    /\ \E feed_id \in Ids :
        walk' = [at |-> "running", feed_id |-> feed_id, queue |-> <<feed_id>>,
                 collected |-> {}, prefix |-> IF HExists(feed_id) THEN "feeds" ELSE "comments"]
    /\ UNCHANGED outside_walk
WalkStep ==
    /\ walk.at = "running"
    /\ walk' = IF walk.queue = <<>> THEN [walk EXCEPT !.at = "returned"]
               ELSE LET n == loop_body(walk.queue, walk.collected, walk.prefix)
                    IN  [walk EXCEPT !.queue = n.queue, !.collected = n.collected,
                                     !.prefix = n.prefix]
    /\ UNCHANGED outside_walk
NextWalk ==
    \/ WalkCreate
    \/ WalkStart
    \/ WalkStep
SpecWalk == Init /\ [][NextWalk]_vars /\ WF_vars(WalkStep)

\* The publishers and subscribers of the chat hooks and of the statistics
\* endpoints on one RedisPubSubManager.
outside_bus == <<feed_engine, sessions, authorized_connections, traffic,
                 connection_manager, presence, walk, rx, inflight, relay>>
HookCreateChat ==
    /\ ccall.calls < MaxHookChats
    /\ CreateChat
\* chat_pubsub_generator: a chat session subscribes to its own topic.
ChatPubsubGenerator ==
    /\ \E u \in Users :
        bus' = [subscribe(bus, u, chats_home(u)) EXCEPT !.last = NoPublish]
    /\ UNCHANGED <<outside_bus, chat_cache>>
\* settings_statistics_websocket subscribes to PubSubTopics.SETTINGS_STATS.value.
SettingsStatisticsWebsocket ==
    /\ \E w \in Conns :
        bus' = [subscribe(bus, w, SETTINGS_STATS) EXCEPT !.last = NoPublish]
    /\ UNCHANGED <<outside_bus, chat_cache>>
\* pubsub.close() at the end of a session or of a statistics websocket.
ClosePubSub ==
    /\ \E sub \in bus.subscriptions :
        bus' = [subscriptions |-> bus.subscriptions \ {sub}, last |-> NoPublish]
    /\ UNCHANGED <<outside_bus, chat_cache>>
\* broadcast_updated_statistics publishes on "statistics".
BroadcastUpdatedStatistics ==
    /\ bus' = [bus EXCEPT !.last =
                [op |-> "broadcast_updated_statistics", by |-> NoUser,
                 topics |-> {<<"statistics">>},
                 recipients |-> publish(bus, SETTINGS_STATS),
                 delivered |-> publish(bus, <<"statistics">>)]]
    /\ UNCHANGED <<outside_bus, chat_cache>>
\* notify_settings_stats publishes on PubSubTopics.SETTINGS_STATS.value.
NotifySettingsStats ==
    /\ bus' = [bus EXCEPT !.last =
                [op |-> "notify_settings_stats", by |-> NoUser,
                 topics |-> {SETTINGS_STATS},
                 recipients |-> publish(bus, SETTINGS_STATS),
                 delivered |-> publish(bus, SETTINGS_STATS)]]
    /\ UNCHANGED <<outside_bus, chat_cache>>
\* chat_connect / chat_disconnect: the goes_online / goes_offline event for the
\* peers of the user.
ChatHookPublishes ==
    /\ \E u \in Users, hook \in {"chat_connect", "chat_disconnect"} :
        LET h == IF hook = "chat_connect" THEN chat_connect(u) ELSE chat_disconnect(u)
            topics == chat_hook_topics(h, u)
        IN  bus' = [bus EXCEPT !.last =
                [op |-> hook, by |-> u, topics |-> topics,
                 recipients |-> {p \in Peers(chats, u) : p \in publish(bus, chats_home(p))},
                 delivered |-> UNION {publish(bus, t) : t \in topics}]]
    /\ UNCHANGED <<outside_bus, chat_cache>>
NextBus ==
    \/ HookCreateChat
    \/ ChatPubsubGenerator
    \/ SettingsStatisticsWebsocket
    \/ ClosePubSub
    \/ BroadcastUpdatedStatistics
    \/ NotifySettingsStats
    \/ ChatHookPublishes
SpecBus == Init /\ [][NextBus]_vars

\* Chat sessions that stay connected: each subscribes to its own topic, its
\* receiver publishes the events its client sends, its listener dispatches.
ReceiverPublishes ==
    /\ relay.count < MaxEvents
    /\ \E u \in Users : \E p \in Users \ {u} :
        /\ Subscribed(bus, u)
        /\ relay' = websocket_receiver_publish(relay, bus, u, p)
    /\ UNCHANGED <<feed_engine, sessions, authorized_connections, traffic, connection_manager,
                   presence, chat_cache, walk, bus, rx, inflight>>
ListenerDispatches ==
    /\ \E u \in Users :
        /\ Subscribed(bus, u)
        /\ relay.mailbox[u] # <<>>
        /\ relay' = pubsub_listener_dispatch(relay, u)
    /\ UNCHANGED <<feed_engine, sessions, authorized_connections, traffic, connection_manager,
                   presence, chat_cache, walk, bus, rx, inflight>>
NextRelay ==
    \/ ChatPubsubGenerator
    \/ ReceiverPublishes
    \/ ListenerDispatches
SpecRelay == Init /\ [][NextRelay]_vars /\ WF_vars(ListenerDispatches)

\* Chat sessions whose hooks find the presence methods they call.  _connect
\* awaits the connect handler and then the subscription; _disconnect closes
\* the subscription and then awaits the disconnect handler.
outside_chat_presence == <<feed_engine, traffic, connection_manager, presence, walk, bus, rx,
                           inflight, relay>>
\* chat_connect returns: the connection is registered, the user is online.
ConnectHandlerReturns ==
    /\ \E u \in Users :
        /\ sessions[u].at = "new"
        /\ authorized_connections' = authorized_connections \cup {u}
        /\ chats' = add_user_to_room(chats, u)
        /\ ccall' = [NoChatCall EXCEPT !.op = "add_user_to_room", !.user_id = u,
                        !.calls = ccall.calls]
        /\ sessions' = [sessions EXCEPT ![u].at = "pubsub_generator",
                                         ![u].client_state = "CONNECTED"]
    /\ UNCHANGED outside_chat_presence
\* chat_pubsub_generator returns the subscription; the two tasks are created.
PubsubGeneratorReturns ==
    /\ \E u \in Users :
        /\ sessions[u].at = "pubsub_generator"
        /\ sessions' = [sessions EXCEPT ![u].at = "waiting", ![u].pubsub = "open",
                                         ![u].listener = "running",
                                         ![u].receiver = "running"]
    /\ UNCHANGED <<authorized_connections, chat_cache, outside_chat_presence>>
\* chat_disconnect returns: the connection is unregistered, the user is offline.
DisconnectHandlerReturns ==
    /\ \E u \in Users :
        /\ sessions[u].at = "disconnect_handler"
        /\ authorized_connections' = authorized_connections \ {u}
        /\ chats' = remove_user_from_room(chats, u)
        /\ ccall' = [NoChatCall EXCEPT !.op = "remove_user_from_room", !.user_id = u,
                        !.calls = ccall.calls]
        /\ sessions' = [sessions EXCEPT ![u].at = "close_websocket",
                                         ![u].disconnect_hooks = @ + 1,
                                         ![u].presence_removals = @ + 1]
    /\ UNCHANGED outside_chat_presence
NextChatPresence ==
    \/ ConnectHandlerReturns
    \/ PubsubGeneratorReturns
    \/ ListenerEnds
    \/ ReceiverEnds
    \/ WaitReturns
    \/ ExitPubsub
    \/ DisconnectHandlerReturns
    \/ ExitWebSocket
SpecChatPresence == Init /\ [][NextChatPresence]_vars

\* One receiver loop against the clock and a client that sends messages,
\* sends frames that are not JSON, stays silent or goes away.
outside_rx == <<feed_engine, sessions, authorized_connections, traffic,
                connection_manager, presence, chat_cache, walk, bus, inflight, relay>>
ClockTick ==
    /\ rx.at = "receiving"
    /\ rx.waited < ReceiveTimeout
    /\ rx.now < MaxClock
    /\ rx' = [rx EXCEPT !.now = @ + 1, !.waited = @ + 1, !.event = "tick"]
    /\ UNCHANGED outside_rx
ReceiveMessage ==
    /\ rx.at = "receiving"
    /\ rx' = received(rx)
    /\ UNCHANGED outside_rx
ReceiveInvalid ==
    /\ rx.at = "receiving"
    /\ rx' = invalid_message(rx)
    /\ UNCHANGED outside_rx
ReceiveTimesOut ==
    /\ rx.at = "receiving"
    /\ rx.waited = ReceiveTimeout
    /\ \E late \in BOOLEAN, sent \in BOOLEAN : rx' = timed_out(rx, late, sent)
    /\ UNCHANGED outside_rx
\* WebSocketDisconnect out of receive_json.
ReceiveDisconnect ==
    /\ rx.at = "receiving"
    /\ rx' = [rx EXCEPT !.at = "ended", !.event = "disconnect"]
    /\ UNCHANGED outside_rx
NextReceiver ==
    \/ ClockTick
    \/ ReceiveMessage
    \/ ReceiveInvalid
    \/ ReceiveTimesOut
    \/ ReceiveDisconnect
SpecReceiver == Init /\ [][NextReceiver]_vars

\* ------------------------------------------------------------------- claims
\* Helpers of the statements below.
SeqIds(seq) == {seq[i] : i \in 1..Len(seq)}
NoDuplicates(seq) == Cardinality(SeqIds(seq)) = Len(seq)
\* The entry (f, s) is not in z because the trim to cap dropped it as the lowest.
TrimmedAsLowest(z, cap, f, s) ==
    /\ ZCard(z) = cap
    /\ \A m \in DOMAIN z : s < z[m] \/ (s = z[m] /\ f < m)
Delivered(z, cap, f, s) ==
    \/ f \in DOMAIN z /\ z[f] = s
    \/ f \notin DOMAIN z /\ TrimmedAsLowest(z, cap, f, s)

\* C1 -- After create_feed for a top-level post by author U, the new feed id is
\* in the global timeline, in U's own timeline and in the following-timeline of
\* every user who was in U's follower set when create_feed was called, except
\* where that timeline is full of entries that all rank above the new one (the
\* cap trim removed it as the lowest-scored entry).
C1_CreateFansOut ==
    [][(last'.op = "create_feed" /\ ~last'.is_comment) =>
        LET f == last'.id
            U == last'.user
            s == _calculate_score(ZeroStats, feeds_meta'[f].created_at)
        IN  /\ Delivered(global_timeline', max_gt, f, s)
            /\ Delivered(user_timeline'[U], max_ut, f, s)
            /\ \A w \in followers[U] : Delivered(following_timeline'[w], max_ft, f, s)]_vars
\* A post has just reached a follower whose following-timeline was already
\* full, and stayed there after the trim.
C1_Witness ==
    /\ last.op = "create_feed"
    /\ "fan_out" \in last.tags
    /\ \E w \in followers[last.user] :
        /\ w # last.user
        /\ last.id \in DOMAIN following_timeline[w]
        /\ ZCard(following_timeline[w]) = max_ft
        /\ ZCard(inserted.ft[w]) > max_ft
    /\ last.id \in DOMAIN global_timeline
    /\ last.id \in DOMAIN user_timeline[last.user]

\* C2 -- After delete_feed on a feed or comment, every comment id c in the
\* transitive closure of comments under it is in no user's per-type reverse
\* engagement index (whoever the user is) and in no user's comment index, no
\* adjacency set and no engagement set keyed by c exists, and c has neither an
\* author pointer nor a parent pointer.
C2_ThreadClosureCleared ==
    [][last'.op = "delete_feed" =>
        \A c \in get_all_nested_comment_ids(last'.id, HExists(last'.id)) :
            /\ \A u \in Users, t \in EngagementType : c \notin users_eng'[u][t]
            /\ \A u \in Users : c \notin users_comments'[u]
            /\ comments_comments'[c] = {}
            /\ \A t \in EngagementType : comments_eng'[c][t] = {}
            /\ comments_author_id'[c] = NoUser
            /\ comments_parent_id'[c] = NoId]_vars

\* C3 -- After delete_feed on a comment c that is a member of the adjacency set
\* of its parent p (a feed or a comment), c is no longer a member of p's
\* adjacency set, and p's other children, engagement sets, metadata and
\* pointers are unchanged.
C3_CommentUnlinkedFromParent ==
    [][(/\ last'.op = "delete_feed"
        /\ ~HExists(last'.id)
        /\ comments_parent_id[last'.id] # NoId
        /\ last'.id \in feeds_comments[comments_parent_id[last'.id]]
                        \cup comments_comments[comments_parent_id[last'.id]]) =>
        LET c == last'.id
            p == comments_parent_id[c]
        IN  /\ feeds_comments'[p] = feeds_comments[p] \ {c}
            /\ comments_comments'[p] = comments_comments[p] \ {c}
            /\ feeds_eng'[p] = feeds_eng[p]
            /\ comments_eng'[p] = comments_eng[p]
            /\ feeds_meta'[p] = feeds_meta[p]
            /\ comments_author_id'[p] = comments_author_id[p]
            /\ comments_parent_id'[p] = comments_parent_id[p]]_vars

TopOf(z, g, cap) ==
    /\ ZCard(z) <= cap
    /\ ZCard(z) = (IF ZCard(g) < cap THEN ZCard(g) ELSE cap)
    /\ DOMAIN z \subseteq DOMAIN g
    /\ \A m \in DOMAIN z : z[m] = g[m]
    /\ \A m \in DOMAIN z, n \in DOMAIN g \ DOMAIN z : g[m] >= g[n]
\* C5 -- After any sequence of create_feed and add_follower calls, every
\* timeline (global, each user's following-timeline, each user's own timeline)
\* holds no more entries than its cap, and its entries are the cap
\* highest-scoring feed ids among all those ever inserted into it.
C5_CapKeepsHighest ==
    /\ TopOf(global_timeline, inserted.gt, max_gt)
    /\ \A u \in Users : TopOf(following_timeline[u], inserted.ft[u], max_ft)
    /\ \A u \in Users : TopOf(user_timeline[u], inserted.ut[u], max_ut)
\* The global timeline and some following-timeline have both been trimmed, the
\* latter of an entry scored strictly below one it kept.
C5_Witness ==
    /\ ZCard(inserted.gt) > max_gt
    /\ ZCard(global_timeline) = max_gt
    /\ \E u \in Users :
        /\ ZCard(following_timeline[u]) = max_ft
        /\ \E m \in DOMAIN following_timeline[u],
              n \in DOMAIN inserted.ft[u] \ DOMAIN following_timeline[u] :
                inserted.ft[u][m] > inserted.ft[u][n]

\* C6 -- For one realtime session of the chat endpoint, once the session is
\* over the subscription was released exactly once, the disconnect hook ran
\* exactly once and the presence removal ran exactly once, whichever loop ended
\* first and whether or not the waiting task was cancelled.
C6_TeardownExactlyOnce ==
    \A u \in Users :
        (/\ sessions[u].connect_handler = "chat_connect"
         /\ sessions[u].disconnect_handler = "chat_disconnect"
         /\ sessions[u].at \in SessionOver) =>
            /\ sessions[u].pubsub_closed = 1
            /\ sessions[u].disconnect_hooks = 1
            /\ sessions[u].presence_removals = 1

\* The same call as the one before it.
SameCallAgain ==
    /\ last'.op = last.op
    /\ last'.user = last.user
    /\ last'.id = last.id
    /\ last'.type = last.type
    /\ last'.is_comment = last.is_comment
\* The membership set a call with these arguments addresses.
MembershipSet(call) ==
    IF call.is_comment THEN comments_eng[call.id][call.type] ELSE feeds_eng[call.id][call.type]
C8_ThreeRoundTrips ==
    (last.op \in {"get_discover_timeline", "get_following_timeline"} /\ "hydrated" \in last.tags) =>
        last.round_trips = 3
\* A page of more than one feed hydrated without a viewer.
C8_Witness ==
    /\ last.op = "get_discover_timeline"
    /\ "hydrated" \in last.tags
    /\ last.user = NoUser
    /\ Len(last.result) > 1
    /\ last.round_trips = 3

\* C9 -- At the same created_at, one more like, repost or comment (other counts
\* equal) gives a strictly greater score; at identical counts, a later
\* created_at gives a score greater than or equal.
C9_ScoreMonotone ==
    [][/\ (/\ probe'.created_at = probe.created_at
           /\ \E k \in {"likes", "reposts", "comments"} :
                probe'.stats = [probe.stats EXCEPT ![k] = @ + 1]) =>
            probe'.score > probe.score
       /\ (probe'.stats = probe.stats /\ probe'.created_at >= probe.created_at) =>
            probe'.score >= probe.score]_vars
\* A post with likes, reposts and comments, created after the first second, scored.
C9_Witness ==
    /\ probe.stats.likes > 0
    /\ probe.stats.reposts > 0
    /\ probe.stats.comments > 0
    /\ probe.created_at > 1
    /\ probe.score = _calculate_score(probe.stats, probe.created_at)
    /\ probe.score > probe.created_at * 1000

\* C10 -- After delete_feed(author, f) on a top-level feed f of that author: f
\* is absent from the global timeline, the author's own timeline, the author's
\* following-timeline and every current follower's following-timeline; for
\* every engagement type, no user who was in f's engagement set has f in their
\* reverse index and the engagement set is gone; f's metadata hash is gone; and
\* the author's post counter is lower by exactly one.
C10_TopLevelDeleteCleans ==
    [][(/\ last'.op = "delete_feed"
        /\ HExists(last'.id)
        /\ feeds_meta[last'.id].author_id = last'.user) =>
        LET f == last'.id
            a == last'.user
        IN  /\ f \notin DOMAIN global_timeline'
            /\ f \notin DOMAIN user_timeline'[a]
            /\ f \notin DOMAIN following_timeline'[a]
            /\ \A w \in followers[a] : f \notin DOMAIN following_timeline'[w]
            /\ \A t \in EngagementType :
                /\ \A u \in feeds_eng[f][t] : f \notin users_eng'[u][t]
                /\ feeds_eng'[f][t] = {}
            /\ ~Exists(feeds_meta'[f])
            /\ profile'[a].feeds_count = profile[a].feeds_count - 1]_vars
\* The author has just deleted a feed that a follower had received and that a
\* user had engaged with.
C10_Witness ==
    /\ last.op = "delete_feed"
    /\ {"feed", "by_author", "followers", "engaged"} \subseteq last.tags
    /\ last.id \notin DOMAIN global_timeline
    /\ ~HExists(last.id)

\* The score the score function gives a cached feed for its counters as they are now.
CurrentScore(f) ==
    _calculate_score(get_engagement(NoUser, f, FALSE).counts, feeds_meta[f].created_at)
\* C11 -- After any sequence of create_feed, set_engagement and
\* remove_engagement calls, the score stored for a top-level feed in each
\* timeline that contains it is the score function applied to the feed's
\* current engagement counts and its created_at (a like just recorded by
\* set_engagement is already in the stored score).
C11_StoredScoreCurrent ==
    \A f \in Ids : HExists(f) =>
        /\ f \in DOMAIN global_timeline => global_timeline[f] = CurrentScore(f)
        /\ \A u \in Users :
            /\ f \in DOMAIN following_timeline[u] => following_timeline[u][f] = CurrentScore(f)
            /\ f \in DOMAIN user_timeline[u] => user_timeline[u][f] = CurrentScore(f)

\* The engagement set of (e, t): the set under the prefix of what e is.
EngagementSet(e, t) == IF HExists(e) THEN feeds_eng[e][t] ELSE comments_eng[e][t]
\* C12 -- After any sequence of set_engagement, remove_engagement and
\* delete_feed calls, for every user u, entity e and engagement type t: u is in
\* the engagement set of (e, t) if and only if e is in u's reverse index for t.
C12_ReverseIndexMirrors ==
    \A u \in Users, e \in Ids, t \in EngagementType :
        u \in EngagementSet(e, t) <=> e \in users_eng[u][t]

\* C13 -- The snapshot set_engagement(u, e, t, is_comment) returns reports a
\* count of at least 1 for t and the viewer flag of t, for is_comment false and
\* true; the snapshot remove_engagement returns reports no viewer flag of t
\* and a count of t that does not include u.
C13_SnapshotReflectsWrite ==
    [][LET u == last'.user
           t == last'.type
           written == IF last'.is_comment THEN comments_eng'[last'.id][t]
                      ELSE feeds_eng'[last'.id][t]
       IN  /\ last'.op = "set_engagement" =>
                /\ last'.snapshot.counts[t] >= 1
                /\ InteractionKey[t] \in last'.snapshot.flags
           /\ last'.op = "remove_engagement" =>
                /\ InteractionKey[t] \notin last'.snapshot.flags
                /\ last'.snapshot.counts[t] = Cardinality(written \ {u})]_vars

\* C14 -- create_feed called with a parent_id leaves every timeline and the
\* author's post counter unchanged; it adds the new id to the parent's
\* adjacency set and to the author's comment index, records the comment's
\* author and parent pointers, and changes nothing else.
C14_CommentsStayOutOfTimelines ==
    [][(last'.op = "create_feed" /\ last'.is_comment) =>
        LET c == last'.id
            a == last'.user
            p == comments_parent_id'[c]
        IN  /\ UNCHANGED <<global_timeline, following_timeline, user_timeline, profile>>
            /\ UNCHANGED <<feeds_meta, feeds_eng, comments_eng, users_eng, followers, followings>>
            /\ p # NoId
            /\ comments_author_id' = [comments_author_id EXCEPT ![c] = a]
            /\ comments_parent_id' = [comments_parent_id EXCEPT ![c] = p]
            /\ users_comments' = [users_comments EXCEPT ![a] = @ \cup {c}]
            /\ IF HExists(p)
               THEN /\ feeds_comments' = [feeds_comments EXCEPT ![p] = @ \cup {c}]
                    /\ UNCHANGED comments_comments
               ELSE /\ comments_comments' = [comments_comments EXCEPT ![p] = @ \cup {c}]
                    /\ UNCHANGED feeds_comments]_vars
\* A reply to a comment has just been cached while the timelines hold feeds,
\* and it is in none of them.
C14_Witness ==
    /\ last.op = "create_feed"
    /\ last.is_comment
    /\ "nested" \in last.tags
    /\ last.id \in comments_comments[comments_parent_id[last.id]]
    /\ last.id \in users_comments[last.user]
    /\ DOMAIN global_timeline # {}
    /\ last.id \notin DOMAIN global_timeline
    /\ \A u \in Users : last.id \notin DOMAIN following_timeline[u] \cup DOMAIN user_timeline[u]

\* The closed state of a home_timeline call: the call is over, neither task is
\* running, the manager's disconnect is done and the subscription handle has
\* been closed (or its close() was called and raised).
\* The closed state of a session: both loops finished, the close of the
\* subscription attempted, the disconnect hook called, the call returned.
Closed(u) ==
    /\ sessions[u].at = "exited"
    /\ sessions[u].listener \in {"done", "cancelled"}
    /\ sessions[u].receiver \in {"done", "cancelled"}
    /\ sessions[u].pubsub \in {"closed", "close_failed"}
    /\ sessions[u].disconnect_hooks = 1
\* C15 -- Whenever either loop of an Active session ends, the session
\* eventually reaches the closed state: the other loop cancelled and finished,
\* the subscription handle closed and the disconnect hook run, whether or not
\* a step of the teardown fails on the way.
C15_LoopEndLeadsToClosed ==
    \A u \in Users :
        (/\ sessions[u].at = "waiting"
         /\ sessions[u].listener = "done" \/ sessions[u].receiver = "done")
            ~> Closed(u)

\* C16 -- In every state in which a session has ended (setup failed after the
\* connection was registered, torn down, or cancelled), the connection
\* registry holds no entry for that session's connection and the subscription
\* handle the session obtained is not left open.
C16_EndedSessionLeavesNothing ==
    \A u \in Users :
        sessions[u].at \in SessionOver =>
            /\ u \notin authorized_connections
            /\ sessions[u].pubsub # "open"

\* The inbound frames the claim calls malformed.
Malformed == {"not_json", "json_not_object", "no_type", "unknown_type"}
\* C17 -- Every malformed inbound frame (not valid JSON, JSON that is not an
\* object, an object with no type, an object with an unknown type) is answered
\* with an error frame on the same socket, and the session stays Active with
\* both loops as they were.
C17_MalformedFrameAnswered ==
    [][\A u \in Users :
        (traffic'[u].inbound = traffic[u].inbound + 1 /\ traffic'[u].frame \in Malformed) =>
            /\ traffic'[u].reply = "detail"
            /\ sessions'[u].at = "waiting"
            /\ sessions'[u].receiver = "running"
            /\ sessions'[u].listener = sessions[u].listener]_vars

Live(w) == websockets[w].application_state = "CONNECTED" /\ ~websockets[w].left
\* C20 -- In every reachable state of the connection manager, every user with
\* a live authorized connection is mapped by the registry to a live connection
\* of that user, also after the user connected twice and one of the two
\* connections disconnected.
C20_RegistryPointsAtLiveConnection ==
    \A u \in Users :
        (\E w \in Conns : websockets[w].user = u /\ Live(w)) =>
            LET ws == manager.authorized_connections[u]
            IN  /\ ws # NoConn
                /\ websockets[ws].user = u
                /\ Live(ws)

\* C22 -- connect and disconnect are idempotent: connecting a connection that
\* is connected already leaves the registry and the anonymous pool as they are,
\* and disconnecting a connection that is not registered returns without an
\* error and changes nothing.
C22_ConnectDisconnectIdempotent ==
    [][/\ (/\ mcall'.op = "connect"
           /\ websockets[mcall'.websocket].application_state = "CONNECTED"
           /\ websockets[mcall'.websocket].user = mcall'.user_id)
            => manager' = manager
       /\ (/\ mcall'.op = "disconnect"
           /\ IF mcall'.user_id # NoUser
              THEN manager.authorized_connections[mcall'.user_id] = NoConn
              ELSE mcall'.websocket \notin Pool(manager))
            => (~mcall'.raised /\ manager' = manager)]_vars

\* C23 -- send_personal_message raises whenever no connection is registered
\* for the user or the send fails; when it returns normally the payload went
\* to the user's registered connection.
C23_PersonalMessageFailsLoudly ==
    [][mcall'.op = "send_personal_message" =>
        LET ws == manager.authorized_connections[mcall'.user_id]
        IN  /\ (ws = NoConn \/ ~send_json(ws)) => mcall'.raised
            /\ ~mcall'.raised => (ws # NoConn /\ mcall'.sent = {ws})]_vars
\* A personal message for a user with no registered connection raised.
C23_Witness ==
    /\ mcall.op = "send_personal_message"
    /\ manager.authorized_connections[mcall.user_id] = NoConn
    /\ mcall.raised
    /\ mcall.sent = {}

\* C24 -- During broadcast a send failure on one target neither stops nor
\* skips the send to another: every target whose send succeeds receives the
\* payload, and broadcast returns without raising.
C24_BroadcastIsolatesFailures ==
    [][mcall'.op = "broadcast" =>
        /\ ~mcall'.raised
        /\ \A ws \in broadcast_targets(manager, mcall'.user_ids) :
                send_json(ws) => ws \in mcall'.sent]_vars
\* A broadcast with a dead target and a live target returned, and the live
\* target got the payload.
C24_Witness ==
    /\ mcall.op = "broadcast"
    /\ ~mcall.raised
    /\ \E dead \in broadcast_targets(manager, mcall.user_ids) : ~send_json(dead)
    /\ \E live \in broadcast_targets(manager, mcall.user_ids) :
            send_json(live) /\ live \in mcall.sent

\* C25 -- When broadcast is given a user_ids list, the empty list included,
\* the payload goes only to registered connections of the listed users and to
\* no connection of the anonymous pool.
C25_ListedUsersOnly ==
    [][(mcall'.op = "broadcast" /\ mcall'.user_ids.given) =>
        /\ mcall'.sent \cap Pool(manager) = {}
        /\ mcall'.sent \subseteq
                {manager.authorized_connections[u] : u \in mcall'.user_ids.ids}]_vars

\* The chat ids in a user's chat list.
Listed(cache, u) == {cache.users_chats[u][i] : i \in 1..Len(cache.users_chats[u])}
\* C27 -- After create_chat(user, participant, chat) the chat id is in both
\* users' chat lists and the chat's participant set is exactly {user,
\* participant}; after a following delete_chat with those same two participants
\* the chat id is in neither list, the chat's metadata and last-message keys do
\* not exist, its participant set is empty, and the chat-related state equals
\* the state before create_chat.
C27_CreateThenDeleteRestores ==
    [][/\ (ccall'.op = "create_chat" /\ ~ccall'.raised) =>
            /\ ccall'.chat_id \in Listed(chats', ccall'.user_id)
            /\ ccall'.chat_id \in Listed(chats', ccall'.participant_id)
            /\ chats'.participants[ccall'.chat_id] = {ccall'.user_id, ccall'.participant_id}
       /\ (ccall'.op = "delete_chat" /\ ccall'.undoes) =>
            /\ \A u \in Members : ccall'.chat_id \notin Listed(chats', u)
            /\ ccall'.chat_id \notin chats'.meta \cup chats'.last_message
            /\ chats'.participants[ccall'.chat_id] = {}
            /\ ChatState(chats') = ChatState(ccall.before)]_vars
\* A chat was created next to another chat of the same user and then deleted
\* with its two participants.
C27_Witness ==
    /\ ccall.op = "delete_chat"
    /\ ccall.undoes
    /\ \E u \in ccall.participants : chats.users_chats[u] # <<>>

C29_DeleteOfAbsentIsNoOp ==
    [][(last'.op = "delete_feed" /\ ~Cached(last'.id)) => store' = store]_vars

\* The comments below an id: those whose chain of parent pointers reaches it.
RECURSIVE IsBelow(_, _, _)
IsBelow(c, f, k) ==
    /\ k > 0
    /\ comments_parent_id[c] # NoId
    /\ \/ comments_parent_id[c] = f
       \/ IsBelow(comments_parent_id[c], f, k - 1)
Descendants(f) == {c \in Ids : IsBelow(c, f, MaxIds)}
\* C30 -- get_all_nested_comment_ids terminates and returns exactly the set of
\* transitive descendants of the given id, for threads of any depth and for
\* every adjacency state that create_feed calls with a parent_id produce.
C30_NestedIdsAreTheDescendants ==
    /\ [](walk.at = "returned" => walk.collected = Descendants(walk.feed_id))
    /\ (walk.at = "running" ~> walk.at = "returned")
\* A walk returned a comment together with a comment below it.
C30_Witness ==
    /\ walk.at = "returned"
    /\ \E c \in walk.collected : comments_parent_id[c] \in walk.collected

\* C21 -- Every event published for a recipient goes out on exactly the topic
\* that recipient subscribes to, so that every subscribed recipient gets it: the
\* online/offline events of the chat hooks reach the subscription of each peer,
\* and every statistics-update publish reaches the statistics subscribers.
C21_PublishReachesSubscribers ==
    [][bus'.last.op # "none" => bus'.last.recipients \subseteq bus'.last.delivered]_vars

\* C26 -- Each time the receive timeout passes with no inbound message, the
\* session sends a heartbeat and keeps waiting when the last inbound message is
\* at most 60 seconds old, and ends when it is older; a connection that stays
\* silent gets at least one heartbeat before it is closed and is closed by its
\* third consecutive timeout; any inbound message resets the idle time.
C26_IdleRule ==
    [][rx'.event \in {"heartbeat", "heartbeat_failed", "timeout_break"} =>
        LET age == rx.now - rx.last_inbound
        IN  /\ age < IdleLimit => rx'.event \in {"heartbeat", "heartbeat_failed"}
            /\ age > IdleLimit => rx'.event = "timeout_break"
            /\ rx'.event = "timeout_break" => rx.heartbeats >= 1
            /\ rx'.timeouts >= 3 => rx'.at = "ended"]_vars

\* C31 -- When a set_engagement(u, f, t) has put f's engagement set and u's
\* reverse-index entry for f back after delete_feed(f) on a top-level feed has
\* finished, the next delete_feed on f removes that engagement set and that
\* reverse-index entry.
C31_NextDeleteHeals ==
    [][\A u \in Users, t \in EngagementType :
        (/\ last'.op = "delete_feed"
         /\ ~Cached(last'.id)
         /\ u \in feeds_eng[last'.id][t]
         /\ last'.id \in users_eng[u][t])
        => (/\ u \notin feeds_eng'[last'.id][t]
            /\ last'.id \notin users_eng'[u][t])]_vars

\* C36 -- Starting from counters that equal the sizes of their sets, after any
\* sequence of add_follower and remove_follower calls (a follow of an
\* already-followed user and an unfollow of a user who is not followed
\* included) each profile's followers_count and followings_count equal the
\* sizes of its followers and followings sets and are never negative.
C36_CountersMatchSets ==
    \A u \in Users :
        /\ profile[u].followers_count = Cardinality(followers[u])
        /\ profile[u].followings_count = Cardinality(followings[u])
        /\ profile[u].followers_count >= 0
        /\ profile[u].followings_count >= 0

\* C38 -- After any sequence of create_feed, update_feed and delete_feed calls
\* every FeedMeta hash that exists contains the id and author_id fields
\* written by create_feed: update_feed on an id with no FeedMeta hash does not
\* create one.
C38_MetaHashesAreComplete ==
    \A f \in Ids :
        HExists(f) => (feeds_meta[f].id = f /\ feeds_meta[f].author_id # NoUser)

\* C35 -- After any sequence of add_follower, remove_follower, create_profile
\* and delete_profile calls the cached follow graph is symmetric: v is a member
\* of followers(u) if and only if u is a member of followings(v).
C35_FollowGraphSymmetric ==
    \A u \in Users, v \in Users : (v \in followers[u]) <=> (u \in followings[v])

\* C37 -- After delete_profile(u) completes, no feed authored by u remains in
\* the global timeline or in any former follower's following-timeline, no
\* FeedMeta hash of a feed authored by u exists, and u's own timeline and u's
\* following-timeline do not exist.
C37_DeleteProfileRemovesPosts ==
    [][last'.op = "delete_profile" =>
        LET u == last'.user
            authored == {f \in Ids : feeds_meta[f].author_id = u}
        IN  /\ \A f \in authored :
                /\ f \notin DOMAIN global_timeline'
                /\ \A v \in followers[u] : f \notin DOMAIN following_timeline'[v]
                /\ ~HExists(f)'
            /\ user_timeline'[u] = EmptyZ
            /\ following_timeline'[u] = EmptyZ]_vars

\* No timeline has lost an entry to its cap.
NoCapReached ==
    /\ DOMAIN inserted.gt = DOMAIN global_timeline
    /\ \A u \in Users :
        /\ DOMAIN inserted.ft[u] = DOMAIN following_timeline[u]
        /\ DOMAIN inserted.ut[u] = DOMAIN user_timeline[u]
\* C32 -- In every quiescent state reached by any interleaving of create_feed,
\* add_follower and remove_follower (each a read followed by a pipelined
\* write), every feed id in an author's own timeline is in the
\* following-timeline of each user currently in that author's follower set, as
\* long as no cap is reached.
C32_FollowersHoldAuthorsPosts ==
    (Quiescent /\ NoCapReached) =>
        \A a \in Users : \A v \in followers[a] :
            DOMAIN user_timeline[a] \subseteq DOMAIN following_timeline[v]

\* C33 -- In every quiescent state reached by any interleaving of create_feed,
\* delete_feed, add_follower and remove_follower, every feed id contained in
\* any timeline (global, own, following) has an existing FeedMeta hash.
C33_NoDanglingTimelineEntry ==
    Quiescent =>
        /\ \A f \in DOMAIN global_timeline : HExists(f)
        /\ \A u \in Users :
            /\ \A f \in DOMAIN user_timeline[u] : HExists(f)
            /\ \A f \in DOMAIN following_timeline[u] : HExists(f)

\* C39 -- A recognized inbound chat event sent by user U that names
\* participant_id P is published on the topic that P's session subscribes to,
\* so that P's live session eventually dispatches it to its handler, and it is
\* not delivered back to U's own connection.
C39_EventReachesParticipant ==
    \A U \in Users : \A P \in Users \ {U} :
        LET event == [by |-> U, participant_id |-> P, live |-> TRUE]
        IN  /\ [](event \notin relay.handled[U])
            /\ (event \in relay.published) ~> (event \in relay.handled[P])

====
